---------------------------- MODULE Spec2Model ----------------------------
(***************************************************************************)
(* Verification and relay-correlation engine of the relay bot.             *)
(*                                                                         *)
(* State: the users table (verification and moderation columns), the       *)
(* messages table (correlation columns), the sensitive_words table, the    *)
(* clock, the handler tasks that are in flight, and the arithmetic         *)
(* challenge under generation.  One action per handler of                  *)
(* app/bot/handlers.py and per route of app/web/routes that reads or       *)
(* writes them; handlers that await the channel also step by step.         *)
(***************************************************************************)
EXTENDS Integers, Sequences, FiniteSets, TLC

-----------------------------------------------------------------------------
(* Universe of the model *)

TgContacts  == {"u1", "u2"}          \* contacts reaching the bot on the chat platform
WebContacts == {"w1"}                \* contacts reaching it through the web widget
Contacts    == TgContacts \cup WebContacts
NoContact   == "-"

AdminOrder  == <<101, 102, 103>>          \* active, message-receiving operators, in roster order
Admins      == {AdminOrder[i] : i \in DOMAIN AdminOrder}
NoAdmin     == 0

MaxCopyId   == 2                     \* copy ids a chat can hand out: 1..MaxCopyId
CopyIds     == 1..MaxCopyId
Fail        == 0                     \* a delivery attempt that raised
NoId        == 0                     \* forwarded_message_id IS NULL

MaxMsgs     == 2                     \* rows the messages table may hold
MaxGated    == 1                     \* rows it may hold where the verification machine is explored
MaxFailsCap == 4                     \* cap on verification_fails (unbounded in the code)
MaxTasks    == 2                     \* concurrently handled callback queries
MaxWords    == 3                     \* rows the sensitive_words table may hold

NoTime      == -1                    \* a NULL DateTime column
NoCode      == "none"                \* a NULL verification_code
Instants    == {0, 60, 61, 3660}     \* instants at which events are observed (seconds)

MathAnswers == {"3"}                 \* answers of generated arithmetic questions
Codes       == MathAnswers \cup {"human"}
Submitted   == Codes \cup {"4"}      \* callback data after removing "verify_"

\* app/config.py
VERIFICATION_TIMEOUT   == 60
MAX_VERIFICATION_FAILS == 3
TEMP_BAN_DURATION      == 3600
\* app/services/message.py: .limit(200)
ScanLimit == 200

-----------------------------------------------------------------------------
(* Rows *)

NoTgId == 0                          \* tg_id IS NULL: a web contact

\* the keys of the rows where the ids play no part: primary keys in the
\* order u1, u2, w1, and tg_ids no primary key equals
DefaultKeys ==
  [c \in Contacts |->
     IF c = "u1" THEN [id |-> 1, tg_id |-> 1001]
     ELSE IF c = "u2" THEN [id |-> 2, tg_id |-> 1002]
     ELSE [id |-> 3, tg_id |-> NoTgId]]

\* one id an operator types for each contact, and one that no row has
KnownIds  == {1001, 1002, 3}
UnknownId == 9

\* tg_ids and target ids where the two lookups are compared
TgIds     == {1, 2, 3, 1001}
TargetIds == {1, 2, 3, 1001, UnknownId}

NoReason == "None"                   \* a NULL blacklist_reason
Reasons  == {"spam"}                 \* reasons an operator gives for a block

\* app/database/models.py: column defaults of User
DefaultUser ==
  [ is_verified          |-> FALSE,
    verification_code    |-> NoCode,
    verification_expires |-> NoTime,
    verification_fails   |-> 0,
    is_blacklisted       |-> FALSE,
    blacklist_reason     |-> NoReason,
    is_whitelisted       |-> FALSE,
    temp_banned_until    |-> NoTime ]

\* app/web/routes/chat.py start_chat: User(source="web", ..., is_verified=True)
NewWebUser == [DefaultUser EXCEPT !.is_verified = TRUE]

VARIABLES
  users,        \* users table: contact -> row
  registered,   \* contacts that have a row
  messages,     \* messages table, in created_at order
  now,          \* datetime.utcnow()
  last,         \* the event handled last, with the state its handler saw
  pc,           \* per callback task: "idle" | "loaded"
  snap,         \* per callback task: the db_user object the task holds, and its input
  succeeded,    \* contacts whose answer handle_verification has accepted (history)
  sensitive_words,  \* sensitive_words table, in id order
  relay,        \* per message task: where handle_user_message stands and what it holds
  orphans,      \* copies delivered by a handling that stored no row (history)
  challenge,    \* the arithmetic challenge being generated: question, options, buttons
  admins,       \* admins table, in the order a scan returns its rows
  keys          \* users table: contact -> the id and tg_id columns of its row

vars == <<users, registered, messages, now, last, pc, snap, succeeded, sensitive_words, relay, orphans, challenge, admins, keys>>

Tasks == 1..MaxTasks

-----------------------------------------------------------------------------
(* app/bot/verification.py *)

\* (variant) the clock is not looked at
is_verification_expired_no_clock(user, t) == user.verification_expires = NoTime

\* VerificationManager.is_verification_expired
is_verification_expired(user, t) ==
  IF user.verification_expires = NoTime THEN TRUE
  ELSE t > user.verification_expires

\* (variant) a row that was ever banned counts as banned
is_temp_banned_forever(user, t) == user.temp_banned_until # NoTime

\* (variant) the ban still holds at the instant it ends
is_temp_banned_inclusive(user, t) ==
  IF user.temp_banned_until = NoTime THEN FALSE
  ELSE t <= user.temp_banned_until

\* VerificationManager.is_temp_banned
is_temp_banned(user, t) ==
  IF user.temp_banned_until = NoTime THEN FALSE
  ELSE t < user.temp_banned_until

\* VerificationManager.should_temp_ban
should_temp_ban(user) == user.verification_fails >= MAX_VERIFICATION_FAILS

\* VerificationManager.get_temp_ban_until
get_temp_ban_until(t) == t + TEMP_BAN_DURATION

\* VerificationManager.get_verification_expires
get_verification_expires(t) == t + VERIFICATION_TIMEOUT

\* generate_math_question for the draws a, b, op of random and, for a
\* product (written "*" here), the second draws a2, b2: the operands shown
\* and the answer
generate_math_question(a, b, op, a2, b2) ==
  IF op = "+" THEN [a |-> a, op |-> op, b |-> b, answer |-> a + b]
  ELSE IF op = "-"
       THEN IF a < b THEN [a |-> b, op |-> op, b |-> a, answer |-> b - a]
            ELSE [a |-> a, op |-> op, b |-> b, answer |-> a - b]
  ELSE [a |-> a2, op |-> op, b |-> b2, answer |-> a2 * b2]

\* a turn of the loop that keeps options below zero
keyboard_draw_signed(options, correct, offset) ==
  IF offset # 0 THEN options \cup {correct + offset} ELSE options

\* one turn of the while loop of generate_math_keyboard
keyboard_draw(options, correct, offset) ==
  IF offset # 0 /\ correct + offset >= 0
  THEN options \cup {correct + offset}
  ELSE options

KeyboardSize == 4
Offsets == (0 - 5)..5

\* list(options) after random.shuffle: any order of the set
shuffles(options) ==
  {order \in [1..Cardinality(options) -> options] :
     \A i, j \in DOMAIN order : i # j => order[i] # order[j]}

-----------------------------------------------------------------------------
(* app/services/user.py: each returns the row as the method leaves it *)

set_verification(user, code, expires) ==
  [user EXCEPT !.verification_code = code, !.verification_expires = expires]

\* (variant) the challenge fields are left in place
set_verified_keeps_challenge(user, verified) ==
  [user EXCEPT !.is_verified = verified]

set_verified(user, verified) ==
  IF verified
  THEN [user EXCEPT !.is_verified = TRUE,
                    !.verification_code = NoCode,
                    !.verification_expires = NoTime]
  ELSE [user EXCEPT !.is_verified = FALSE]

\* (variant) the attempt is not counted
increment_verification_fails_lost(user) == user

increment_verification_fails(user) ==
  [user EXCEPT !.verification_fails = @ + 1]

\* (variant) the count is left as it is
reset_verification_fails_noop(user) == user

reset_verification_fails(user) ==
  [user EXCEPT !.verification_fails = 0]

\* (variant) a ban that grants fresh attempts
set_temp_ban_resets(user, until) ==
  [user EXCEPT !.temp_banned_until = until, !.verification_fails = 0]

set_temp_ban(user, until) ==
  [user EXCEPT !.temp_banned_until = until]

set_blacklist(user, blacklisted, reason) ==
  [user EXCEPT !.is_blacklisted = blacklisted,
               !.blacklist_reason = IF blacklisted THEN reason ELSE NoReason]

\* (variant) removal from the whitelist takes the verification back
set_whitelist_restores(user, whitelisted) ==
  IF whitelisted
  THEN [user EXCEPT !.is_whitelisted = TRUE, !.is_verified = TRUE]
  ELSE [user EXCEPT !.is_whitelisted = FALSE, !.is_verified = FALSE]

set_whitelist(user, whitelisted) ==
  IF whitelisted
  THEN [user EXCEPT !.is_whitelisted = TRUE, !.is_verified = TRUE]
  ELSE [user EXCEPT !.is_whitelisted = FALSE]

-----------------------------------------------------------------------------
(* Message text: a sequence of characters *)

Texts ==
  { <<"h", "i">>,
    <<"/", "r">>,
    <<"F", "o", "o">>,
    <<"b", "a", "r">> }

\* str.lower() on the alphabet of Texts
lower_char(ch) ==
  IF ch = "F" THEN "f" ELSE IF ch = "O" THEN "o" ELSE ch
lower(text) == [i \in DOMAIN text |-> lower_char(text[i])]

\* Python's `word in text` on strings
contains(word, text) ==
  \E i \in 1..(Len(text) - Len(word) + 1) : SubSeq(text, i, i + Len(word) - 1) = word

\* str.startswith("/")
starts_with_slash(text) == Len(text) > 0 /\ text[1] = "/"

\* rows of the sensitive_words table, in the order get_all_words returns them
SensitiveWords ==
  << [word |-> <<"f", "o", "o">>, action |-> "block"],
     [word |-> <<"b", "a", "r">>, action |-> "warn"] >>

NoAction == "None"

\* (variant) the loop ends at the first word that matches
RECURSIVE check_loop_first_match(_, _, _, _, _)
check_loop_first_match(words, content_lower, i, triggered, action) ==
  IF i > Len(words) THEN [triggered |-> triggered, action |-> action]
  ELSE IF contains(lower(words[i].word), content_lower)
       THEN [triggered |-> Append(triggered, words[i].word),
             action |-> IF words[i].action = "block" THEN "block" ELSE "warn"]
       ELSE check_loop_first_match(words, content_lower, i + 1, triggered, action)

\* (variant) every match overwrites the action: the last one wins
RECURSIVE check_loop_last_wins(_, _, _, _, _)
check_loop_last_wins(words, content_lower, i, triggered, action) ==
  IF i > Len(words) THEN [triggered |-> triggered, action |-> action]
  ELSE IF contains(lower(words[i].word), content_lower)
       THEN check_loop_last_wins(words, content_lower, i + 1,
                                 Append(triggered, words[i].word),
                                 IF words[i].action = "block" THEN "block" ELSE "warn")
       ELSE check_loop_last_wins(words, content_lower, i + 1, triggered, action)

(* app/services/sensitive.py: SensitiveWordService.check_content *)
RECURSIVE check_loop(_, _, _, _, _)
check_loop(words, content_lower, i, triggered, action) ==
  IF i > Len(words) THEN [triggered |-> triggered, action |-> action]
  ELSE IF contains(lower(words[i].word), content_lower)
       THEN check_loop(words, content_lower, i + 1,
                       Append(triggered, words[i].word),
                       IF words[i].action = "block" THEN "block"
                       ELSE IF action # "block" THEN "warn" ELSE action)
       ELSE check_loop(words, content_lower, i + 1, triggered, action)

check_content(content, words) ==
  IF Len(content) = 0 THEN [triggered |-> <<>>, action |-> NoAction]
  ELSE check_loop(words, lower(content), 1, <<>>, NoAction)

\* words and tags the operators enter on the settings page
Terms == { <<"f", "o", "o">>, <<"F", "o", "o">>, <<"b", "a", "r">>, <<>> }
Tags  == {"warn", "block"}

\* texts handed to the content gate
GateTexts ==
  Texts \cup { <<>>, <<"f", "o", "o", " ", "b", "a", "r">>, <<"F", "O", "O">> }

\* SensitiveWordService.add_word: an existing word gets the new action in
\* place, a new word gets the next id
add_word(table, word, action) ==
  IF \E i \in DOMAIN table : table[i].word = word
  THEN [i \in DOMAIN table |->
          IF table[i].word = word THEN [table[i] EXCEPT !.action = action]
          ELSE table[i]]
  ELSE Append(table, [word |-> word, action |-> action])

\* SensitiveWordService.delete_word: the row at position i leaves the table
delete_word(table, i) ==
  [k \in 1..(Len(table) - 1) |-> IF k < i THEN table[k] ELSE table[k + 1]]

-----------------------------------------------------------------------------
(* app/services/notification.py: NotificationService.is_quiet_hours *)

NoHour == -1                         \* the setting is missing

\* the quiet-hours settings a handler may read from the settings table
QuietSettings ==
  { [enabled |-> FALSE, start |-> 23, end |-> 7],
    [enabled |-> TRUE,  start |-> 23, end |-> 7],
    [enabled |-> TRUE,  start |-> 1,  end |-> 5],
    [enabled |-> TRUE,  start |-> NoHour, end |-> 7] }

\* quiet hours switched off
QuietOff == [enabled |-> FALSE, start |-> 23, end |-> 7]

\* quiet from 23:00 to 07:00
QuietNight == [enabled |-> TRUE, start |-> 23, end |-> 7]

\* datetime.utcnow().hour
hour_of(t) == (t \div 3600) % 24

\* the same with the end hour counted in
is_quiet_hours_end_inclusive(qs, t) ==
  IF ~qs.enabled THEN FALSE
  ELSE IF qs.start = NoHour \/ qs.end = NoHour THEN FALSE
  ELSE IF qs.start <= qs.end
       THEN qs.start <= hour_of(t) /\ hour_of(t) <= qs.end
       ELSE hour_of(t) >= qs.start \/ hour_of(t) <= qs.end

is_quiet_hours(qs, t) ==
  IF ~qs.enabled THEN FALSE
  ELSE IF qs.start = NoHour \/ qs.end = NoHour THEN FALSE
  ELSE IF qs.start <= qs.end
       THEN qs.start <= hour_of(t) /\ hour_of(t) < qs.end
       ELSE hour_of(t) >= qs.start \/ hour_of(t) < qs.end

\* hours of the day, and the instants at which each begins
Hours == 0..23
HourInstants == {h * 3600 : h \in Hours}

\* a value of the system_settings table is a string: the characters of a
\* number, or None where the key has no row
DigitChars == <<"0", "1", "2", "3", "4", "5", "6", "7", "8", "9">>
NoSetting  == <<"None">>

\* str(n)
RECURSIVE str_int(_)
str_int(n) ==
  IF n < 0 THEN <<"-">> \o str_int(0 - n)
  ELSE IF n < 10 THEN <<DigitChars[n + 1]>>
  ELSE Append(str_int(n \div 10), DigitChars[(n % 10) + 1])

digit_of(ch) == CHOOSE d \in 0..9 : DigitChars[d + 1] = ch

is_digits(s) ==
  /\ Len(s) > 0
  /\ \A i \in DOMAIN s : \E d \in 0..9 : DigitChars[d + 1] = s[i]

RECURSIVE int_digits(_, _, _)
int_digits(s, i, acc) ==
  IF i > Len(s) THEN acc ELSE int_digits(s, i + 1, 10 * acc + digit_of(s[i]))

\* int(s) of is_quiet_hours, with `not s` and ValueError giving NoHour
int_str(s) ==
  IF s = NoSetting \/ s = <<>> THEN NoHour
  ELSE IF ~is_digits(s) THEN NoHour
  ELSE int_digits(s, 1, 0)

\* app/web/routes/settings.py update_notification_settings: the three rows
\* written for the values of the form
update_notification_settings(quiet_hours_enabled, quiet_hours_start, quiet_hours_end) ==
  [ enabled |-> quiet_hours_enabled,
    start   |-> str_int(quiet_hours_start),
    end     |-> str_int(quiet_hours_end) ]

\* the form's defaults
DefaultForm == [enabled |-> "false", start |-> 23, end |-> 7]

\* the three get_setting calls of is_quiet_hours and what it makes of them
quiet_settings(stored) ==
  [ enabled |-> stored.enabled = "true",
    start   |-> int_str(stored.start),
    end     |-> int_str(stored.end) ]

-----------------------------------------------------------------------------
(* app/services/message.py *)

NoDict == [a \in {} |-> NoId]        \* forwarded_message_ids = {}

\* a creator that stamps the first operator on a row given none
create_message_stamps_operator(user, direction, forwarded_message_ids, triggered_sensitive, admin_id, sent, gate) ==
  [ user                  |-> user,
    direction             |-> direction,
    forwarded_message_id  |-> NoId,
    forwarded_message_ids |-> forwarded_message_ids,
    triggered_sensitive   |-> triggered_sensitive,
    replied_by_admin      |-> IF admin_id = NoAdmin THEN AdminOrder[1] ELSE admin_id,
    is_important          |-> FALSE,
    is_read               |-> FALSE,
    sent                  |-> sent,
    gate                  |-> gate,
    accepted              |-> 0 ]

\* MessageService.create_message: the row it adds.  `sent` and `gate` are
\* history fields: the copies the channel really delivered for this message,
\* the sender's standing when the handler took the message, and the place of
\* the message in the order in which the dispatcher accepted the updates.
create_message(user, direction, forwarded_message_ids, triggered_sensitive, admin_id, sent, gate) ==
  [ user                  |-> user,
    direction             |-> direction,
    forwarded_message_id  |-> NoId,
    forwarded_message_ids |-> forwarded_message_ids,
    triggered_sensitive   |-> triggered_sensitive,
    replied_by_admin      |-> admin_id,
    is_important          |-> FALSE,
    is_read               |-> FALSE,
    sent                  |-> sent,
    gate                  |-> gate,
    accepted              |-> 0 ]

\* a marking that also resets the correlation column
mark_as_read_resets(msg) ==
  [msg EXCEPT !.is_read = TRUE, !.forwarded_message_ids = NoDict]

\* MessageService.mark_as_read, mark_as_important: the row as they leave it
mark_as_read(msg) == [msg EXCEPT !.is_read = TRUE]

mark_as_important(msg, important) == [msg EXCEPT !.is_important = important]

\* `accepted` of a row the table held before the first step
Backlogged == 0 - 1

\* the rows added since
added_rows(msgs) == Cardinality({i \in DOMAIN msgs : msgs[i].accepted # Backlogged})

NotFound == 0
MultipleResultsFound == -1           \* scalar_one_or_none() raises

\* the inner test of the scan of get_message_by_forwarded_id
scan_match(msg, forwarded_id, admin_tg_id) ==
  /\ DOMAIN msg.forwarded_message_ids # {}
  /\ IF admin_tg_id # NoAdmin /\ admin_tg_id \in DOMAIN msg.forwarded_message_ids
     THEN msg.forwarded_message_ids[admin_tg_id] = forwarded_id
     ELSE \E a \in DOMAIN msg.forwarded_message_ids :
            msg.forwarded_message_ids[a] = forwarded_id

\* the rows of direction "in", newest first, at most ScanLimit of them
recent_inbound(msgs) ==
  LET inb == {i \in DOMAIN msgs : msgs[i].direction = "in"}
  IN  {i \in inb : Cardinality({j \in inb : j > i}) < ScanLimit}

\* MessageService.get_message_by_forwarded_id: the index of the row returned,
\* NotFound, or MultipleResultsFound
get_message_by_forwarded_id(msgs, forwarded_id, admin_tg_id) ==
  LET legacy == {i \in DOMAIN msgs : msgs[i].forwarded_message_id = forwarded_id}
      hits   == {i \in recent_inbound(msgs) :
                   scan_match(msgs[i], forwarded_id, admin_tg_id)}
  IN  IF Cardinality(legacy) > 1 THEN MultipleResultsFound
      ELSE IF Cardinality(legacy) = 1 THEN CHOOSE i \in legacy : TRUE
      ELSE IF hits = {} THEN NotFound
      ELSE CHOOSE i \in hits : \A j \in hits : j <= i

-----------------------------------------------------------------------------
(* The outbound channel *)

\* ids already used in the chat with operator a: a chat never repeats an id
chat_ids(msgs, a) ==
  {msgs[i].sent[a] : i \in {j \in DOMAIN msgs : a \in DOMAIN msgs[j].sent}}

\* what the attempts of one fan-out return: per operator an id or Fail
Deliveries(msgs) ==
  {res \in [Admins -> CopyIds \cup {Fail}] :
     \A a \in Admins : res[a] # Fail => res[a] \notin chat_ids(msgs, a)}

delivered(res) == [a \in {b \in Admins : res[b] # Fail} |-> res[a]]

\* the copies the channel handed to the operators a fan-out tried to reach
channel_sent(res, attempted) ==
  [a \in {b \in attempted : res[b] # Fail} |-> res[a]]

\* no attempt made yet
NoResults == [a \in Admins |-> Fail]

\* every attempt succeeds and each chat hands out its lowest free id
InOrder(msgs) ==
  {res \in Deliveries(msgs) :
     \A a \in Admins :
       /\ res[a] = Fail => CopyIds \subseteq chat_ids(msgs, a)
       /\ res[a] # Fail => \A k \in CopyIds : k < res[a] => k \in chat_ids(msgs, a)}

-----------------------------------------------------------------------------
(* The sender's standing in the words of the specification; history only *)

Standing(user, t) ==
  [ blocked    |-> user.is_blacklisted,
    restricted |-> user.temp_banned_until # NoTime /\ t < user.temp_banned_until,
    verified   |-> user.is_verified,
    trusted    |-> user.is_whitelisted ]

NoStanding == Standing(DefaultUser, 0)

-----------------------------------------------------------------------------
(* app/bot/handlers.py *)

\* (variant) the temporary ban is not looked at
user_message_gate_no_ban(db_user, t) ==
  IF db_user.is_blacklisted THEN "blocked"
  ELSE IF ~db_user.is_verified /\ ~db_user.is_whitelisted
       THEN IF db_user.verification_code # NoCode
               /\ ~is_verification_expired(db_user, t)
            THEN "pending"
            ELSE "challenge"
       ELSE "relay"

\* handle_user_message, lines 519-543: which branch takes the message
user_message_gate(db_user, t) ==
  IF db_user.is_blacklisted THEN "blocked"
  ELSE IF is_temp_banned(db_user, t) THEN "restricted"
  ELSE IF ~db_user.is_verified /\ ~db_user.is_whitelisted
       THEN IF db_user.verification_code # NoCode
               /\ ~is_verification_expired(db_user, t)
            THEN "pending"
            ELSE "challenge"
       ELSE "relay"

\* forwarded_message_ids[str(admin_id)] = forwarded_msg.message_id
dict_put(d, key, value) ==
  [k \in DOMAIN d \cup {key} |-> IF k = key THEN value ELSE d[k]]

\* app/config.py admin_id_list: the ids of ADMIN_IDS, in the order written
admin_id_list == AdminOrder

\* app/main.py, init_admins_from_config: one row per configured id, in that
\* order, with the column defaults; the first is the super operator
DefaultRoster ==
  [i \in DOMAIN admin_id_list |->
     [tg_id |-> admin_id_list[i], is_active |-> TRUE, receive_messages |-> TRUE,
      is_super |-> i = 1]]

\* a query that leaves out the receive_messages condition
get_active_admins_any(adm) == SelectSeq(adm, LAMBDA a : a.is_active)

\* AdminService.get_active_admins: the rows that are active and receive
\* messages, as the scan returns them (the query has no ORDER BY)
get_active_admins(adm) ==
  SelectSeq(adm, LAMBDA a : a.is_active /\ a.receive_messages)

\* AdminService.get_admin_tg_ids
get_admin_tg_ids(adm) ==
  LET active == get_active_admins(adm)
  IN  [i \in DOMAIN active |-> active[i].tg_id]

\* handle_user_message, lines 568-575: the list the loop runs over
fan_out_ids(adm) ==
  LET admin_ids == get_admin_tg_ids(adm)
  IN  IF admin_ids = <<>> THEN admin_id_list ELSE admin_ids

NoFanOut == [ids |-> NoDict, attempted |-> {}, order |-> <<>>]

\* (variant) one try around the whole loop: the first failure ends the fan-out
RECURSIVE forward_loop_abort(_, _, _, _, _)
forward_loop_abort(admin_ids, res, is_quiet, i, acc) ==
  IF i > Len(admin_ids) THEN acc
  ELSE IF is_quiet THEN forward_loop_abort(admin_ids, res, is_quiet, i + 1, acc)
  ELSE LET a   == admin_ids[i]
           met == [acc EXCEPT !.attempted = @ \cup {a}, !.order = Append(@, a)]
       IN  IF res[a] = Fail THEN met
           ELSE forward_loop_abort(admin_ids, res, is_quiet, i + 1,
                                   [met EXCEPT !.ids = dict_put(@, a, res[a])])

\* handle_user_message, lines 580-596: the loop over admin_ids, each turn in
\* a try of its own.  res[a] is what message.forward(a) returns, Fail when it
\* raises.  The warning sent after a forward is inside the same try and after
\* the assignment, so whether it raises changes nothing the loop records.
RECURSIVE forward_loop(_, _, _, _, _)
forward_loop(admin_ids, res, is_quiet, i, acc) ==
  IF i > Len(admin_ids) THEN acc
  ELSE IF is_quiet THEN forward_loop(admin_ids, res, is_quiet, i + 1, acc)
  ELSE LET a   == admin_ids[i]
           met == [acc EXCEPT !.attempted = @ \cup {a}, !.order = Append(@, a)]
       IN  IF res[a] = Fail
           THEN forward_loop(admin_ids, res, is_quiet, i + 1, met)
           ELSE forward_loop(admin_ids, res, is_quiet, i + 1,
                             [met EXCEPT !.ids = dict_put(@, a, res[a])])

\* cmd_start, lines 61-93: which branch takes /start
cmd_start_gate(db_user, t) ==
  IF db_user.is_whitelisted THEN "welcome"
  ELSE IF db_user.is_blacklisted THEN "blocked"
  ELSE IF is_temp_banned(db_user, t) THEN "restricted"
  ELSE IF db_user.is_verified THEN "welcome"
  ELSE "challenge"

\* start_verification: the code stored for the chosen verification type
verification_code_for(v_type, answer) ==
  IF v_type = "math" THEN answer ELSE "human"

start_verification(db_user, v_type, answer, t) ==
  set_verification(db_user, verification_code_for(v_type, answer),
                   get_verification_expires(t))

\* handle_verification, lines 139-199, on the db_user object the task holds:
\* the object as the handler leaves it, and what the contact is told
handle_verification(db_user, answer, t) ==
  IF is_verification_expired(db_user, t)
  THEN [user |-> db_user, outcome |-> "expired", remaining |-> 0]
  ELSE IF answer = db_user.verification_code
  THEN [user |-> reset_verification_fails(set_verified(db_user, TRUE)),
        outcome |-> "success", remaining |-> 0]
  ELSE LET failed == increment_verification_fails(db_user)
       IN  IF should_temp_ban(failed)
           THEN [user |-> set_temp_ban(failed, get_temp_ban_until(t)),
                 outcome |-> "banned", remaining |-> 0]
           ELSE [user |-> failed, outcome |-> "wrong",
                 remaining |-> MAX_VERIFICATION_FAILS - failed.verification_fails]

-----------------------------------------------------------------------------
(* Events *)

NoEvent ==
  [ kind |-> "none", who |-> NoContact, pre |-> DefaultUser, at |-> 0,
    outcome |-> "none", answer |-> NoCode, remaining |-> 0,
    stored |-> DefaultUser, op |-> NoAdmin, copy |-> NoId, hit |-> NotFound,
    passed |-> FALSE, quiet |-> FALSE, verdict |-> NoAction,
    res |-> NoResults, attempted |-> {}, recorded |-> NotFound,
    text |-> <<>>, triggered |-> <<>>, form |-> DefaultForm,
    warned |-> {}, seq |-> 0, order |-> <<>>, target |-> 0 ]

\* the event a handler leaves in `last`: kind, contact, the row the handler
\* saw (pre), the row the table held when the handler wrote (stored), the
\* clock, what the handler did, and whether an answer of the contact had
\* been accepted before (passed).  Handlers of inbound messages add what the
\* quiet-hours policy and the content gate say of the message (quiet,
\* verdict), what the channel answered (res) and the operators tried
\* (attempted); handlers of operator messages add the row they stored
\* (recorded); a call of the content gate adds its input and result (text,
\* triggered, verdict); a call of the quiet-hours policy adds the values the
\* operator saved (form) and its result (quiet).
Event(kind, who, pre, outcome) ==
  [NoEvent EXCEPT !.kind = kind, !.who = who, !.pre = pre, !.stored = pre,
                  !.at = now, !.outcome = outcome, !.passed = who \in succeeded]

NoSnap == [who |-> NoContact, user |-> DefaultUser, answer |-> NoCode]

\* no challenge generated
NoChallenge ==
  [ stage |-> "none", a |-> 0, op |-> "+", b |-> 0, code |-> <<>>,
    options |-> {}, shown |-> <<>>, buttons |-> <<>> ]

\* a message task that handles nothing
NoRelay ==
  [ stage |-> "idle", who |-> NoContact, seq |-> 0, gate |-> NoStanding,
    triggered |-> FALSE, verdict |-> NoAction, quiet |-> FALSE, i |-> 1,
    ids |-> NoDict, sent |-> NoDict, attempted |-> {}, warned |-> {} ]

Init ==
  /\ users = [c \in Contacts |-> DefaultUser]
  /\ registered = {}
  /\ messages = <<>>
  /\ now = 0
  /\ last = NoEvent
  /\ pc = [k \in Tasks |-> "idle"]
  /\ snap = [k \in Tasks |-> NoSnap]
  /\ succeeded = {}
  /\ sensitive_words = SensitiveWords
  /\ relay = [k \in Tasks |-> NoRelay]
  /\ orphans = {}
  /\ challenge = NoChallenge
  /\ admins = DefaultRoster
  /\ keys = DefaultKeys

\* the clock moves on
Tick(t) ==
  /\ t > now
  /\ now' = t
  /\ last' = [NoEvent EXCEPT !.kind = "tick", !.at = t]
  /\ UNCHANGED <<users, registered, messages, pc, snap, succeeded, sensitive_words, relay, orphans, challenge, admins, keys>>

\* handle_user_message for a contact that is no operator, with UserMiddleware's
\* get_or_create_user before it and DatabaseMiddleware's commit after it
UserMessage(c, text, qs, v_type, answer, res) ==
  LET db_user == users[c]
      gate    == user_message_gate(db_user, now)
      checked == check_content(text, sensitive_words)
      quiet   == is_quiet_hours(qs, now)
      fan     == forward_loop(fan_out_ids(admins), res, quiet, 1, NoFanOut)
      copies  == fan.ids
  IN
  /\ registered' = registered \cup {c}
  /\ UNCHANGED <<now, pc, snap, succeeded, sensitive_words, relay, orphans, challenge, admins, keys>>
  /\ IF gate \in {"blocked", "restricted", "pending"}
     THEN /\ last' = Event("msg", c, db_user, gate)
          /\ UNCHANGED <<users, messages>>
     ELSE IF gate = "challenge"
     THEN /\ users' = [users EXCEPT ![c] = start_verification(db_user, v_type, answer, now)]
          /\ last' = Event("msg", c, db_user, gate)
          /\ UNCHANGED messages
     ELSE IF starts_with_slash(text)
     THEN /\ last' = Event("msg", c, db_user, "relay_command")
          /\ UNCHANGED <<users, messages>>
     ELSE IF checked.triggered # <<>> /\ checked.action = "block"
     THEN /\ last' = [Event("msg", c, db_user, "relay_blocked")
                         EXCEPT !.quiet = quiet, !.verdict = checked.action]
          /\ UNCHANGED <<users, messages>>
     ELSE /\ added_rows(messages) < MaxMsgs
          /\ messages' = Append(messages,
                create_message(c, "in", copies, checked.triggered # <<>>, NoAdmin,
                               channel_sent(res, fan.attempted), Standing(db_user, now)))
          /\ last' = [Event("msg", c, db_user,
                            IF quiet THEN "relay_held" ELSE "relay_delivered")
                         EXCEPT !.hit = Len(messages) + 1,
                                !.quiet = quiet, !.verdict = checked.action,
                                !.res = res, !.attempted = fan.attempted,
                                !.order = fan.order]
          /\ UNCHANGED users

\* cmd_start for a contact that is no operator
CmdStart(c, v_type, answer) ==
  LET db_user == users[c]
      gate    == cmd_start_gate(db_user, now)
  IN
  /\ registered' = registered \cup {c}
  /\ last' = Event("start", c, db_user, gate)
  /\ users' = IF gate = "challenge"
              THEN [users EXCEPT ![c] = start_verification(db_user, v_type, answer, now)]
              ELSE users
  /\ UNCHANGED <<messages, now, pc, snap, succeeded, sensitive_words, relay, orphans, challenge, admins, keys>>

\* handle_verification run to its commit with nothing in between
VerificationCallback(c, answer) ==
  LET db_user == users[c]
      done    == handle_verification(db_user, answer, now)
  IN
  /\ done.user.verification_fails <= MaxFailsCap
  /\ registered' = registered \cup {c}
  /\ users' = [users EXCEPT ![c] = done.user]
  /\ last' = [Event("verify", c, db_user, done.outcome)
                EXCEPT !.answer = answer, !.remaining = done.remaining]
  /\ succeeded' = IF done.outcome = "success" THEN succeeded \cup {c} ELSE succeeded
  /\ UNCHANGED <<messages, now, pc, snap, sensitive_words, relay, orphans, challenge, admins, keys>>

\* handle_verification on a correct answer in time, with
\* increment_verification_success raising at line 153: the exception leaves
\* the handler and DatabaseMiddleware rolls back what set_verified and
\* reset_verification_fails flushed
VerificationAborted(c, answer) ==
  LET db_user == users[c]
      done    == handle_verification(db_user, answer, now)
  IN
  /\ done.outcome = "success"
  /\ registered' = registered \cup {c}
  /\ last' = [Event("verify", c, db_user, "stats_failed") EXCEPT !.answer = answer]
  /\ UNCHANGED <<users, messages, now, pc, snap, succeeded, sensitive_words, relay, orphans, challenge, admins, keys>>

\* /block, /unblock and toggle_blacklist of the admin pages
AdminSetBlacklist(c, flag, reason) ==
  /\ c \in registered
  /\ users' = [users EXCEPT ![c] = set_blacklist(@, flag, reason)]
  /\ last' = Event("admin", c, users[c], IF flag THEN "block" ELSE "unblock")
  /\ UNCHANGED <<registered, messages, now, pc, snap, succeeded, sensitive_words, relay, orphans, challenge, admins, keys>>

\* /whitelist and toggle_whitelist of the admin pages
AdminSetWhitelist(c, flag) ==
  /\ c \in registered
  /\ users' = [users EXCEPT ![c] = set_whitelist(@, flag)]
  /\ last' = Event("admin", c, users[c], IF flag THEN "trust" ELSE "untrust")
  /\ UNCHANGED <<registered, messages, now, pc, snap, succeeded, sensitive_words, relay, orphans, challenge, admins, keys>>

\* app/web/routes/chat.py start_chat
WebStartChat(w) ==
  /\ registered' = registered \cup {w}
  /\ users' = IF w \in registered THEN users ELSE [users EXCEPT ![w] = NewWebUser]
  /\ last' = Event("web_start", w, users[w], "session")
  /\ UNCHANGED <<messages, now, pc, snap, succeeded, sensitive_words, relay, orphans, challenge, admins, keys>>

\* the id send_message leaves in forwarded_message_id: the loop over the
\* operators overwrites it at every successful send
RECURSIVE last_sent(_, _, _)
last_sent(res, i, acc) ==
  IF i > Len(AdminOrder) THEN acc
  ELSE last_sent(res, i + 1, IF res[AdminOrder[i]] # Fail THEN res[AdminOrder[i]] ELSE acc)

\* app/web/routes/chat.py send_message: neither the settings table nor the
\* sensitive_words table is read; `quiet` and `verdict` of the event are what
\* the policy and the gate say of this message
WebSendMessage(w, text, qs, res) ==
  LET user    == users[w]
      checked == check_content(text, sensitive_words)
      quiet   == is_quiet_hours(qs, now)
  IN
  /\ w \in registered
  /\ UNCHANGED <<users, registered, now, pc, snap, succeeded, sensitive_words, relay, orphans, challenge, admins, keys>>
  /\ IF user.is_blacklisted
     THEN /\ last' = Event("web", w, user, "blocked")
          /\ UNCHANGED messages
     ELSE /\ added_rows(messages) < MaxMsgs
          /\ messages' = Append(messages,
               [create_message(w, "in", NoDict, FALSE, NoAdmin, delivered(res),
                               Standing(user, now))
                  EXCEPT !.forwarded_message_id = last_sent(res, 1, NoId)])
          /\ last' = [Event("web", w, user, "relay_delivered")
                        EXCEPT !.hit = Len(messages) + 1,
                               !.quiet = quiet, !.verdict = checked.action,
                               !.res = res, !.attempted = Admins]

\* the contacts whose forwarded copy carries id `copy` in the chat with `op`
copy_owner(msgs, op, copy) ==
  {msgs[i].user : i \in {j \in DOMAIN msgs :
                           op \in DOMAIN msgs[j].sent /\ msgs[j].sent[op] = copy}}

\* the contacts whose copy with id `copy` reached the chat with `op` from a
\* message task that has not stored its row yet
flight_owner(op, copy) ==
  {relay[k].who : k \in {j \in Tasks : /\ op \in DOMAIN relay[j].sent
                                       /\ relay[j].sent[op] = copy}}

\* what reply_msg.forward_from can show: the sender of the copy (or nothing,
\* when the sender hides it or the copy was sent, not forwarded) when `copy`
\* is a copy the bot delivered into the chat with `op`; otherwise the
\* message is one the operator put there, forwarded from anyone or not
forward_origins(msgs, op, copy) ==
  IF copy \in chat_ids(msgs, op)
  THEN (copy_owner(msgs, op, copy) \cap TgContacts) \cup {NoContact}
  ELSE IF flight_owner(op, copy) # {}
  THEN (flight_owner(op, copy) \cap TgContacts) \cup {NoContact}
  ELSE TgContacts \cup {NoContact}

\* handle_admin_reply: operator `op` replies to the message with id `copy` of
\* its chat; `forward_from` is the visible origin of that message, `ok` whether
\* the channel delivers the reply to the contact
AdminReply(op, copy, forward_from, ok) ==
  LET original == get_message_by_forwarded_id(messages, copy, op)
      target   == IF original > 0 THEN messages[original].user
                  ELSE forward_from
  IN
  /\ forward_from \in forward_origins(messages, op, copy)
  /\ forward_from # NoContact => forward_from \in registered
  /\ UNCHANGED <<users, registered, now, pc, snap, succeeded, sensitive_words, relay, orphans, challenge, admins, keys>>
  /\ IF original = MultipleResultsFound
     THEN /\ last' = [Event("reply", NoContact, DefaultUser, "error")
                        EXCEPT !.op = op, !.copy = copy, !.hit = original]
          /\ UNCHANGED messages
     ELSE IF target = NoContact
     THEN /\ last' = [Event("reply", NoContact, DefaultUser, "unresolved")
                        EXCEPT !.op = op, !.copy = copy, !.hit = original]
          /\ UNCHANGED messages
     ELSE IF target \in TgContacts /\ ~ok
     THEN /\ last' = [Event("reply", target, users[target], "send_failed")
                        EXCEPT !.op = op, !.copy = copy, !.hit = original]
          /\ UNCHANGED messages
     ELSE /\ added_rows(messages) < MaxMsgs
          /\ messages' = Append(messages,
               create_message(target, "out", NoDict, FALSE, op, NoDict, NoStanding))
          /\ last' = [Event("reply", target, users[target], "sent")
                        EXCEPT !.op = op, !.copy = copy, !.hit = original,
                               !.recorded = Len(messages) + 1]

\* UserService.get_user_by_id: the contact whose row has this primary key
get_user_by_id(ks, rows, user_id) ==
  LET found == {c \in rows : ks[c].id = user_id}
  IN  IF found = {} THEN NoContact ELSE CHOOSE c \in found : TRUE

\* UserService.get_user_by_tg_id: the contact whose row has this tg_id (a
\* NULL tg_id equals nothing)
get_user_by_tg_id(ks, rows, tg_id) ==
  LET found == {c \in rows : ks[c].tg_id # NoTgId /\ ks[c].tg_id = tg_id}
  IN  IF found = {} THEN NoContact ELSE CHOOSE c \in found : TRUE

\* cmd_reply, lines 374-379: the primary key first, then the tg_id
cmd_reply_target(ks, rows, target_id) ==
  LET user == get_user_by_id(ks, rows, target_id)
  IN  IF user # NoContact THEN user ELSE get_user_by_tg_id(ks, rows, target_id)

\* api_send_message, lines 116-120: the tg_id first, then the primary key
api_send_target(ks, rows, user_id) ==
  LET user == get_user_by_tg_id(ks, rows, user_id)
  IN  IF user # NoContact THEN user ELSE get_user_by_id(ks, rows, user_id)

\* cmd_reply: operator `op` sends /r <target_id> <text>; `ok` says whether
\* the channel delivers the text
CmdReply(op, target_id, ok) ==
  LET c == cmd_reply_target(keys, registered, target_id)
  IN
  /\ UNCHANGED <<users, registered, now, pc, snap, succeeded, sensitive_words, relay, orphans, challenge, admins, keys>>
  /\ IF c = NoContact
     THEN /\ last' = [Event("r", NoContact, DefaultUser, "no_user")
                        EXCEPT !.op = op, !.target = target_id]
          /\ UNCHANGED messages
     ELSE IF c \in TgContacts /\ ~ok
     THEN /\ last' = [Event("r", c, users[c], "send_failed")
                        EXCEPT !.op = op, !.target = target_id]
          /\ UNCHANGED messages
     ELSE /\ added_rows(messages) < MaxMsgs
          /\ messages' = Append(messages,
               create_message(c, "out", NoDict, FALSE, op, NoDict, NoStanding))
          /\ last' = [Event("r", c, users[c], "sent")
                        EXCEPT !.op = op, !.target = target_id,
                               !.recorded = Len(messages) + 1]

\* app/web/routes/api.py api_send_message: the operator logged in to the
\* admin pages sends a text to the contact found for user_id
ApiSendMessage(op, user_id, ok) ==
  LET c == api_send_target(keys, registered, user_id)
  IN
  /\ UNCHANGED <<users, registered, now, pc, snap, succeeded, sensitive_words, relay, orphans, challenge, admins, keys>>
  /\ IF c = NoContact
     THEN /\ last' = [Event("api", NoContact, DefaultUser, "no_user")
                        EXCEPT !.op = op, !.target = user_id]
          /\ UNCHANGED messages
     ELSE IF c \in TgContacts /\ ~ok
     THEN /\ last' = [Event("api", c, users[c], "send_failed")
                        EXCEPT !.op = op, !.target = user_id]
          /\ UNCHANGED messages
     ELSE /\ added_rows(messages) < MaxMsgs
          /\ messages' = Append(messages,
               create_message(c, "out", NoDict, FALSE, op, NoDict, NoStanding))
          /\ last' = [Event("api", c, users[c], "sent")
                        EXCEPT !.op = op, !.target = user_id,
                               !.recorded = Len(messages) + 1]

\* app/web/routes/api.py api_upload_file: an image for the contact found for
\* user_id is recorded; whether the channel then delivers it changes nothing
ApiUploadFile(c) ==
  /\ c # NoContact => c \in registered
  /\ UNCHANGED <<users, registered, now, pc, snap, succeeded, sensitive_words, relay, orphans, challenge, admins, keys>>
  /\ IF c = NoContact
     THEN /\ last' = Event("upload", NoContact, DefaultUser, "no_user")
          /\ UNCHANGED messages
     ELSE /\ added_rows(messages) < MaxMsgs
          /\ messages' = Append(messages,
               create_message(c, "out", NoDict, FALSE, NoAdmin, NoDict, NoStanding))
          /\ last' = [Event("upload", c, users[c], "sent")
                        EXCEPT !.recorded = Len(messages) + 1]

\* MessageService.mark_as_read on the row with id i
MarkAsRead(i) ==
  /\ UNCHANGED <<users, registered, now, pc, snap, succeeded, sensitive_words, relay, orphans, challenge, admins, keys>>
  /\ IF i \in DOMAIN messages
     THEN /\ messages' = [messages EXCEPT ![i] = mark_as_read(messages[i])]
          /\ last' = [Event("read", messages[i].user, DefaultUser, "marked")
                        EXCEPT !.hit = i]
     ELSE /\ last' = Event("read", NoContact, DefaultUser, "no_message")
          /\ UNCHANGED messages

\* app/web/routes/messages.py toggle_important on the row with id i
ToggleImportant(i) ==
  /\ UNCHANGED <<users, registered, now, pc, snap, succeeded, sensitive_words, relay, orphans, challenge, admins, keys>>
  /\ IF i \in DOMAIN messages
     THEN /\ messages' = [messages EXCEPT
                            ![i] = mark_as_important(messages[i], ~messages[i].is_important)]
          /\ last' = [Event("important", messages[i].user, DefaultUser, "marked")
                        EXCEPT !.hit = i]
     ELSE /\ last' = Event("important", NoContact, DefaultUser, "no_message")
          /\ UNCHANGED messages

\* app/web/routes/settings.py add_sensitive_word
AddWord(word, action) ==
  /\ Len(add_word(sensitive_words, word, action)) <= MaxWords
  /\ sensitive_words' = add_word(sensitive_words, word, action)
  /\ last' = Event("add_word", NoContact, DefaultUser, action)
  /\ UNCHANGED <<users, registered, messages, now, pc, snap, succeeded, relay, orphans, challenge, admins, keys>>

\* app/web/routes/settings.py delete_sensitive_word
DeleteWord(i) ==
  /\ i \in DOMAIN sensitive_words
  /\ sensitive_words' = delete_word(sensitive_words, i)
  /\ last' = Event("delete_word", NoContact, DefaultUser, "deleted")
  /\ UNCHANGED <<users, registered, messages, now, pc, snap, succeeded, relay, orphans, challenge, admins, keys>>

\* a call of SensitiveWordService.check_content on the table as it is
CheckContent(text) ==
  LET checked == check_content(text, sensitive_words)
  IN
  /\ last' = [Event("classify", NoContact, DefaultUser, "checked")
                EXCEPT !.text = text, !.triggered = checked.triggered,
                       !.verdict = checked.action]
  /\ UNCHANGED <<users, registered, messages, now, pc, snap, succeeded, sensitive_words, relay, orphans, challenge, admins, keys>>

\* NotificationService.is_quiet_hours, called at `now` after an operator
\* saved the notification form with these values
IsQuietHours(enabled, start, end) ==
  LET stored == update_notification_settings(enabled, start, end)
      form   == [enabled |-> enabled, start |-> start, end |-> end]
  IN
  /\ last' = [Event("quiet", NoContact, DefaultUser, "asked")
                 EXCEPT !.form = form,
                        !.quiet = is_quiet_hours(quiet_settings(stored), now)]
  /\ UNCHANGED <<users, registered, messages, now, pc, snap, succeeded, sensitive_words, relay, orphans, challenge, admins, keys>>

\* start_verification, lines 104-106: generate_math_question, whose answer
\* goes on as str(answer), and the first lines of generate_math_keyboard
GenerateMathQuestion(a, b, op, a2, b2) ==
  LET q    == generate_math_question(a, b, op, a2, b2)
      code == str_int(q.answer)
  IN
  /\ challenge.stage \in {"none", "shown"}
  /\ challenge' = [NoChallenge EXCEPT !.stage = "drawing", !.a = q.a, !.op = q.op,
                                      !.b = q.b, !.code = code,
                                      !.options = {int_str(code)}]
  /\ last' = Event("challenge", NoContact, DefaultUser, "question")
  /\ UNCHANGED <<users, registered, messages, now, pc, snap, succeeded, sensitive_words, relay, orphans, admins, keys>>

\* one turn of the while loop with random.randint(-5, 5) = offset
KeyboardDraw(offset) ==
  /\ challenge.stage = "drawing"
  /\ Cardinality(challenge.options) < KeyboardSize
  /\ challenge' = [challenge EXCEPT
                     !.options = keyboard_draw(@, int_str(challenge.code), offset)]
  /\ UNCHANGED <<users, registered, messages, now, last, pc, snap, succeeded, sensitive_words, relay, orphans, admins, keys>>

\* the loop is left, the options are shuffled and the buttons made
KeyboardShow(order) ==
  /\ challenge.stage = "drawing"
  /\ Cardinality(challenge.options) >= KeyboardSize
  /\ order \in shuffles(challenge.options)
  /\ challenge' = [challenge EXCEPT !.stage = "shown", !.shown = order,
                     !.buttons = [i \in DOMAIN order |-> str_int(order[i])]]
  /\ last' = Event("challenge", NoContact, DefaultUser, "keyboard")
  /\ UNCHANGED <<users, registered, messages, now, pc, snap, succeeded, sensitive_words, relay, orphans, admins, keys>>

\* the instants observed where the gate is explored on both inbound paths
GateInstants == {0, 3660}

\* callback queries are handled as concurrent tasks (Dispatcher.start_polling),
\* each in a session of its own (DatabaseMiddleware).  A task first loads its
\* db_user (UserMiddleware.get_or_create_user) ...
CallbackLoad(k, c, answer) ==
  /\ pc[k] = "idle"
  /\ pc' = [pc EXCEPT ![k] = "loaded"]
  /\ snap' = [snap EXCEPT ![k] = [who |-> c, user |-> users[c], answer |-> answer]]
  /\ registered' = registered \cup {c}
  /\ last' = [Event("load", c, users[c], "loaded") EXCEPT !.answer = answer]
  /\ UNCHANGED <<users, messages, now, succeeded, sensitive_words, relay, orphans, challenge, admins, keys>>

\* the UPDATE a flush emits: the columns whose value the task changed on its
\* object, whatever the row holds by now
write_back(row, loaded, changed) ==
  [f \in DOMAIN row |-> IF changed[f] # loaded[f] THEN changed[f] ELSE row[f]]

\* ... and after `await callback.answer()` runs handle_verification on that
\* object, flushes and commits
CallbackRun(k) ==
  LET c    == snap[k].who
      done == handle_verification(snap[k].user, snap[k].answer, now)
  IN
  /\ pc[k] = "loaded"
  /\ done.user.verification_fails <= MaxFailsCap
  /\ users' = [users EXCEPT ![c] = write_back(@, snap[k].user, done.user)]
  /\ pc' = [pc EXCEPT ![k] = "idle"]
  /\ snap' = [snap EXCEPT ![k] = NoSnap]
  /\ last' = [Event("verify", c, snap[k].user, done.outcome)
                EXCEPT !.answer = snap[k].answer, !.remaining = done.remaining,
                       !.stored = users[c]]
  /\ succeeded' = IF done.outcome = "success" THEN succeeded \cup {c} ELSE succeeded
  /\ UNCHANGED <<registered, messages, now, sensitive_words, relay, orphans, challenge, admins, keys>>

\* Messages are handled as concurrent tasks too.  The steps of one task are
\* the stretches of handle_user_message between two awaits on the channel:
\* the gate and the content check, each message.forward, each warning, and
\* the tail that stores the row and commits.

\* ids the chat with operator a has used: in stored rows, in rows lost, and
\* in the tasks in flight
used_ids(a) ==
  chat_ids(messages, a)
    \cup {o[2] : o \in {p \in orphans : p[1] = a}}
    \cup {relay[k].sent[a] : k \in {j \in Tasks : a \in DOMAIN relay[j].sent}}

\* what message.forward(a) may return now: Fail, or the lowest free id
forward_results(a) ==
  {Fail} \cup {id \in CopyIds : /\ id \notin used_ids(a)
                                /\ \A k \in CopyIds : k < id => k \in used_ids(a)}

\* the place of the next update in the order of acceptance
next_seq ==
  1 + Cardinality({k \in Tasks : relay[k].stage # "idle"}) + Len(messages) + Cardinality(orphans)

\* lines 583-586: the loop turns to admin_ids[i] and awaits message.forward
relay_forward(t) ==
  [t EXCEPT !.stage = "forwarding", !.attempted = @ \cup {AdminOrder[t.i]}]

\* a loop that forgets the copy id when the warning raises
relay_warned_forgets(t, ok) ==
  LET a == AdminOrder[t.i]
  IN  IF ok THEN [t EXCEPT !.stage = "loop", !.i = @ + 1, !.warned = @ \cup {a}]
      ELSE [t EXCEPT !.stage = "loop", !.i = @ + 1,
                     !.ids = [b \in DOMAIN t.ids \ {a} |-> t.ids[b]]]

\* lines 586-596: message.forward returned `got` or raised (Fail); a copy id
\* is stored at once, and with triggered words the warning is awaited next
relay_forwarded(t, got) ==
  LET a == AdminOrder[t.i]
  IN  IF got = Fail THEN [t EXCEPT !.stage = "loop", !.i = @ + 1]
      ELSE [t EXCEPT !.ids = dict_put(@, a, got),
                     !.sent = dict_put(@, a, got),
                     !.stage = IF t.triggered THEN "warning" ELSE "loop",
                     !.i = IF t.triggered THEN @ ELSE @ + 1]

\* lines 590-596: bot.send_message returned (ok) or raised
relay_warned(t, ok) ==
  LET a == AdminOrder[t.i]
  IN  [t EXCEPT !.stage = "loop", !.i = @ + 1,
                !.warned = IF ok THEN @ \cup {a} ELSE @]

\* task k takes a message of contact c that passes the gate and the content
\* check (lines 505-578); in quiet hours the loop awaits nothing
RelayAccept(k, c, text, qs) ==
  LET db_user == users[c]
      checked == check_content(text, sensitive_words)
      quiet   == is_quiet_hours(qs, now)
  IN
  /\ relay[k].stage = "idle"
  /\ user_message_gate(db_user, now) = "relay"
  /\ ~starts_with_slash(text)
  /\ ~(checked.triggered # <<>> /\ checked.action = "block")
  /\ next_seq <= MaxMsgs
  /\ relay' = [relay EXCEPT ![k] =
        [NoRelay EXCEPT !.stage = "loop", !.who = c, !.seq = next_seq,
                        !.gate = Standing(db_user, now),
                        !.triggered = checked.triggered # <<>>,
                        !.verdict = checked.action,
                        !.quiet = quiet,
                        !.i = IF quiet THEN Len(AdminOrder) + 1 ELSE 1]]
  /\ registered' = registered \cup {c}
  /\ last' = [Event("accept", c, db_user, "relay")
                EXCEPT !.quiet = quiet, !.verdict = checked.action, !.seq = next_seq]
  /\ UNCHANGED <<users, messages, now, pc, snap, succeeded, sensitive_words, orphans, challenge, admins, keys>>

\* task k issues the attempt to the operator the loop has reached
RelayForward(k) ==
  /\ relay[k].stage = "loop"
  /\ relay[k].i <= Len(AdminOrder)
  /\ relay' = [relay EXCEPT ![k] = relay_forward(@)]
  /\ UNCHANGED <<users, registered, messages, now, last, pc, snap, succeeded, sensitive_words, orphans, challenge, admins, keys>>

\* the attempt task k waits for ends
RelayForwarded(k, got) ==
  /\ relay[k].stage = "forwarding"
  /\ got \in forward_results(AdminOrder[relay[k].i])
  /\ relay' = [relay EXCEPT ![k] = relay_forwarded(@, got)]
  /\ UNCHANGED <<users, registered, messages, now, last, pc, snap, succeeded, sensitive_words, orphans, challenge, admins, keys>>

\* the warning task k waits for ends
RelayWarned(k, ok) ==
  /\ relay[k].stage = "warning"
  /\ relay' = [relay EXCEPT ![k] = relay_warned(@, ok)]
  /\ UNCHANGED <<users, registered, messages, now, last, pc, snap, succeeded, sensitive_words, orphans, challenge, admins, keys>>

\* what the tail of the handler may meet: nothing, a failure of the store at
\* create_message or at the commit, a failure of the stats counter
Faults == {"none", "store", "stats"}

\* lines 598-614 and DatabaseMiddleware: the loop is over, task k stores the
\* row, counts the message and commits; an exception on the way leaves the
\* handler and rolls the session back
RelayStore(k, fault) ==
  LET t   == relay[k]
      c   == t.who
      res == [a \in Admins |-> IF a \in DOMAIN t.sent THEN t.sent[a] ELSE Fail]
      row == [create_message(c, "in", t.ids, t.triggered, NoAdmin, t.sent, t.gate)
                EXCEPT !.accepted = t.seq]
      ev  == [Event("msg", c, users[c], "none")
                EXCEPT !.quiet = t.quiet, !.verdict = t.verdict, !.res = res,
                       !.attempted = t.attempted, !.warned = t.warned, !.seq = t.seq]
  IN
  /\ t.stage = "loop"
  /\ t.i > Len(AdminOrder)
  /\ relay' = [relay EXCEPT ![k] = NoRelay]
  /\ UNCHANGED <<users, registered, now, pc, snap, succeeded, sensitive_words, challenge, admins, keys>>
  /\ IF fault = "none"
     THEN /\ messages' = Append(messages, row)
          /\ last' = [ev EXCEPT !.outcome = IF t.quiet THEN "relay_held" ELSE "relay_delivered",
                                !.hit = Len(messages) + 1]
          /\ UNCHANGED orphans
     ELSE /\ orphans' = orphans \cup {<<a, t.sent[a]>> : a \in DOMAIN t.sent}
          /\ last' = [ev EXCEPT !.outcome = IF fault = "store" THEN "store_failed"
                                                              ELSE "stats_failed"]
          /\ UNCHANGED messages

\* The verification machine: one chat-platform contact, every handler that
\* reads or writes its row
Next ==
  \/ \E t \in Instants : Tick(t)
  \/ \E text \in Texts, qs \in QuietSettings, v_type \in {"math", "button"},
        answer \in MathAnswers, res \in InOrder(messages) :
       /\ Len(messages) < MaxGated
       /\ UserMessage("u1", text, qs, v_type, answer, res)
  \/ \E v_type \in {"math", "button"}, answer \in MathAnswers :
       CmdStart("u1", v_type, answer)
  \/ \E answer \in Submitted : VerificationCallback("u1", answer)
  \/ \E flag \in BOOLEAN : AdminSetBlacklist("u1", flag, NoReason)
  \/ \E flag \in BOOLEAN : AdminSetWhitelist("u1", flag)

Spec == Init /\ [][Next]_vars

\* The gate on both inbound paths: the chat-platform contact and the web
\* contact (whose path reads is_blacklisted only)
NextGate ==
  \/ \E t \in GateInstants : Tick(t)
  \/ \E text \in {<<"h", "i">>, <<"F", "o", "o">>}, qs \in {QuietOff, QuietNight}, v_type \in {"math", "button"},
        answer \in MathAnswers, res \in InOrder(messages) :
       /\ Len(messages) < MaxGated
       /\ UserMessage("u1", text, qs, v_type, answer, res)
  \/ \E v_type \in {"math", "button"}, answer \in MathAnswers :
       CmdStart("u1", v_type, answer)
  \/ \E answer \in Submitted : VerificationCallback("u1", answer)
  \/ \E c \in {"u1", "w1"}, flag \in BOOLEAN : AdminSetBlacklist(c, flag, NoReason)
  \/ \E flag \in BOOLEAN : AdminSetWhitelist("u1", flag)
  \/ \E w \in WebContacts : WebStartChat(w)
  \/ \E w \in WebContacts, res \in InOrder(messages) :
       /\ Len(messages) < MaxGated
       /\ WebSendMessage(w, <<"h", "i">>, QuietOff, res)

SpecGate == Init /\ [][NextGate]_vars

\* Concurrent callback tasks of one contact
NextConc ==
  \/ \E t \in Instants : Tick(t)
  \/ \E v_type \in {"math", "button"}, answer \in MathAnswers :
       CmdStart("u1", v_type, answer)
  \/ \E k \in Tasks, answer \in Submitted : CallbackLoad(k, "u1", answer)
  \/ \E k \in Tasks : CallbackRun(k)

SpecConc == Init /\ [][NextConc]_vars

\* Relay and reply correlation: every contact, contacts admitted by the
\* operators' trust command, every outcome of the delivery attempts, replies
\* that the channel delivers or refuses, the clock standing still
NextRelay ==
  \/ \E c \in TgContacts : AdminSetWhitelist(c, TRUE)
  \/ \E c \in TgContacts, res \in Deliveries(messages) :
       UserMessage(c, <<"h", "i">>, QuietOff, "button", "3", res)
  \/ \E w \in WebContacts : WebStartChat(w)
  \/ \E w \in WebContacts, res \in Deliveries(messages) :
       WebSendMessage(w, <<"h", "i">>, QuietOff, res)
  \/ \E op \in Admins, copy \in CopyIds, ff \in {"u1", NoContact}, ok \in BOOLEAN :
       AdminReply(op, copy, ff, ok)

SpecRelay == Init /\ [][NextRelay]_vars

\* The relay pipeline behind the gate on both inbound paths: every text,
\* quiet hours on and off, every outcome of the delivery attempts
NextInbound ==
  \/ AdminSetWhitelist("u1", TRUE)
  \/ \E text \in Texts, qs \in {QuietOff, QuietNight}, res \in Deliveries(messages) :
       /\ Len(messages) < MaxGated
       /\ UserMessage("u1", text, qs, "button", "3", res)
  \/ \E w \in WebContacts : WebStartChat(w)
  \/ \E w \in WebContacts, text \in Texts, qs \in {QuietOff, QuietNight}, res \in Deliveries(messages) :
       /\ Len(messages) < MaxGated
       /\ WebSendMessage(w, text, qs, res)

SpecInbound == Init /\ [][NextInbound]_vars

\* The operators' side: replies to delivered copies and the two direct-send
\* paths, with every delivery to an operator succeeding
NextOutbound ==
  \/ \E c \in TgContacts : AdminSetWhitelist(c, TRUE)
  \/ \E c \in TgContacts : CmdStart(c, "button", "3")
  \/ \E c \in TgContacts, res \in InOrder(messages) :
       UserMessage(c, <<"h", "i">>, QuietOff, "button", "3", res)
  \/ \E w \in WebContacts : WebStartChat(w)
  \/ \E w \in WebContacts, res \in InOrder(messages) :
       WebSendMessage(w, <<"h", "i">>, QuietOff, res)
  \/ \E op \in Admins, copy \in CopyIds, ff \in {"u1", NoContact}, ok \in BOOLEAN :
       AdminReply(op, copy, ff, ok)
  \/ \E op \in Admins, target_id \in KnownIds \cup {UnknownId}, ok \in BOOLEAN :
       CmdReply(op, target_id, ok)
  \/ \E op \in Admins, user_id \in KnownIds \cup {UnknownId}, ok \in BOOLEAN :
       ApiSendMessage(op, user_id, ok)

SpecOutbound == Init /\ [][NextOutbound]_vars

\* The content gate: the term list starts empty and is edited on the
\* settings page; any text may be classified at any time
InitClassify ==
  /\ users = [c \in Contacts |-> DefaultUser]
  /\ registered = {}
  /\ messages = <<>>
  /\ now = 0
  /\ last = NoEvent
  /\ pc = [k \in Tasks |-> "idle"]
  /\ snap = [k \in Tasks |-> NoSnap]
  /\ succeeded = {}
  /\ sensitive_words = <<>>
  /\ relay = [k \in Tasks |-> NoRelay]
  /\ orphans = {}
  /\ challenge = NoChallenge
  /\ admins = DefaultRoster
  /\ keys = DefaultKeys

NextClassify ==
  \/ \E word \in Terms, action \in Tags : AddWord(word, action)
  \/ \E i \in 1..MaxWords : DeleteWord(i)
  \/ \E text \in GateTexts : CheckContent(text)

SpecClassify == InitClassify /\ [][NextClassify]_vars

\* The messages table under every handler that reads or writes it: inbound
\* messages of both paths, the three ways an operator answers, uploads,
\* markings and moderation
NextStore ==
  \/ AdminSetWhitelist("u1", TRUE)
  \/ \E flag \in BOOLEAN : AdminSetBlacklist("u1", flag, NoReason)
  \/ \E res \in InOrder(messages) :
       /\ Len(messages) < MaxGated
       /\ UserMessage("u1", <<"h", "i">>, QuietOff, "button", "3", res)
  \/ WebStartChat("w1")
  \/ \E res \in InOrder(messages) :
       /\ Len(messages) < MaxGated
       /\ WebSendMessage("w1", <<"h", "i">>, QuietOff, res)
  \/ \E op \in Admins, copy \in CopyIds : AdminReply(op, copy, NoContact, TRUE)
  \/ CmdReply(101, DefaultKeys["u1"].tg_id, TRUE)
  \/ ApiSendMessage(102, DefaultKeys["w1"].id, TRUE)
  \/ ApiUploadFile("u1")
  \/ \E i \in 1..MaxGated : MarkAsRead(i)
  \/ \E i \in 1..MaxGated : ToggleImportant(i)

SpecStore == Init /\ [][NextStore]_vars

\* The fan-out of concurrently handled messages of one contact, with and
\* without warnings, outside quiet hours, the store and the stats counter
\* working
NextFan ==
  \/ CmdStart("u1", "button", "3")
  \/ AdminSetWhitelist("u1", TRUE)
  \/ \E k \in Tasks, text \in {<<"h", "i">>, <<"b", "a", "r">>} :
       RelayAccept(k, "u1", text, QuietOff)
  \/ \E k \in Tasks : RelayForward(k)
  \/ \E k \in Tasks, got \in CopyIds \cup {Fail} : RelayForwarded(k, got)
  \/ \E k \in Tasks, ok \in BOOLEAN : RelayWarned(k, ok)
  \/ \E k \in Tasks : RelayStore(k, "none")

SpecFan == Init /\ [][NextFan]_vars

\* One message task at a time, with and without triggered words, in and out
\* of quiet hours, forwards and warnings that succeed or raise
NextWarn ==
  \/ CmdStart("u1", "button", "3")
  \/ AdminSetWhitelist("u1", TRUE)
  \/ \E text \in {<<"h", "i">>, <<"b", "a", "r">>}, qs \in {QuietOff, QuietNight} :
       RelayAccept(1, "u1", text, qs)
  \/ RelayForward(1)
  \/ \E got \in CopyIds \cup {Fail} : RelayForwarded(1, got)
  \/ \E ok \in BOOLEAN : RelayWarned(1, ok)
  \/ RelayStore(1, "none")

SpecWarn == Init /\ [][NextWarn]_vars

\* One contact, one message task at a time, the store or the stats counter
\* failing where the handlers call them after their first effect
NextFaults ==
  \/ CmdStart("u1", "button", "3")
  \/ \E answer \in Submitted : VerificationCallback("u1", answer)
  \/ \E answer \in Submitted : VerificationAborted("u1", answer)
  \/ \E text \in {<<"h", "i">>, <<"b", "a", "r">>}, qs \in {QuietOff, QuietNight} :
       RelayAccept(1, "u1", text, qs)
  \/ RelayForward(1)
  \/ \E got \in CopyIds \cup {Fail} : RelayForwarded(1, got)
  \/ \E ok \in BOOLEAN : RelayWarned(1, ok)
  \/ \E fault \in Faults : RelayStore(1, fault)

SpecFaults == Init /\ [][NextFaults]_vars

\* The challenge generator, for one challenge: operands from both ends and
\* the middle of the ranges random.randint draws from, every operator, every
\* offset, every shuffle
Operands        == {1, 2, 13, 20}
ProductOperands == {1, 10}

NextChallenge ==
  \/ \E a \in Operands, b \in Operands, op \in {"+", "-", "*"},
        a2 \in ProductOperands, b2 \in ProductOperands :
       /\ challenge.stage = "none"
       /\ GenerateMathQuestion(a, b, op, a2, b2)
  \/ \E offset \in Offsets : KeyboardDraw(offset)
  \/ \E order \in shuffles(challenge.options) : KeyboardShow(order)

SpecChallenge == Init /\ [][NextChallenge]_vars

\* Optional[bool] = None in AdminUpdateRequest: no value, or one
None == {}
OptionalBool == {None, {TRUE}, {FALSE}}
given(field) == CHOOSE b \in field : TRUE

\* AdminService.create_admin: the row added, with the column defaults
create_admin(tg_id) ==
  [tg_id |-> tg_id, is_active |-> TRUE, receive_messages |-> TRUE, is_super |-> FALSE]

\* AdminService.update_admin: a field given as None is left alone
update_admin(admin, receive_messages, is_active) ==
  [admin EXCEPT
     !.receive_messages = IF receive_messages # None THEN given(receive_messages) ELSE @,
     !.is_active        = IF is_active # None THEN given(is_active) ELSE @]

\* app/web/routes/api.py api_create_admin, to the commit of get_db
ApiCreateAdmin(tg_id) ==
  LET existing == {i \in DOMAIN admins : admins[i].tg_id = tg_id}
  IN
  /\ IF existing # {}
     THEN /\ last' = [Event("roster", NoContact, DefaultUser, "exists") EXCEPT !.op = tg_id]
          /\ UNCHANGED admins
     ELSE /\ admins' = Append(admins, create_admin(tg_id))
          /\ last' = [Event("roster", NoContact, DefaultUser, "created") EXCEPT !.op = tg_id]
  /\ UNCHANGED <<users, registered, messages, now, pc, snap, succeeded, sensitive_words, relay, orphans, challenge, keys>>

\* api_update_admin for the row at place admin_id
ApiUpdateAdmin(admin_id, receive_messages, is_active) ==
  /\ IF admin_id \notin DOMAIN admins
     THEN /\ last' = Event("roster", NoContact, DefaultUser, "not_found")
          /\ UNCHANGED admins
     ELSE /\ admins' = [admins EXCEPT ![admin_id] = update_admin(@, receive_messages, is_active)]
          /\ last' = [Event("roster", NoContact, DefaultUser, "updated")
                        EXCEPT !.op = admins[admin_id].tg_id]
  /\ UNCHANGED <<users, registered, messages, now, pc, snap, succeeded, sensitive_words, relay, orphans, challenge, keys>>

\* api_delete_admin for the row at place admin_id
ApiDeleteAdmin(admin_id) ==
  /\ IF admin_id \notin DOMAIN admins
     THEN /\ last' = Event("roster", NoContact, DefaultUser, "not_found")
          /\ UNCHANGED admins
     ELSE IF admins[admin_id].is_super
     THEN /\ last' = [Event("roster", NoContact, DefaultUser, "refused")
                        EXCEPT !.op = admins[admin_id].tg_id]
          /\ UNCHANGED admins
     ELSE /\ admins' = [i \in 1..(Len(admins) - 1) |->
                          IF i < admin_id THEN admins[i] ELSE admins[i + 1]]
          /\ last' = [Event("roster", NoContact, DefaultUser, "deleted")
                        EXCEPT !.op = admins[admin_id].tg_id]
  /\ UNCHANGED <<users, registered, messages, now, pc, snap, succeeded, sensitive_words, relay, orphans, challenge, keys>>

\* The two direct-send paths on the same store: the contacts have the
\* primary keys 1, 2, 3 and the chat-platform contacts any two different
\* tg_ids; rows come into being, operators send by number on both paths
InitTarget ==
  /\ users = [c \in Contacts |-> DefaultUser]
  /\ registered = {}
  /\ messages = <<>>
  /\ now = 0
  /\ last = NoEvent
  /\ pc = [k \in Tasks |-> "idle"]
  /\ snap = [k \in Tasks |-> NoSnap]
  /\ succeeded = {}
  /\ sensitive_words = SensitiveWords
  /\ relay = [k \in Tasks |-> NoRelay]
  /\ orphans = {}
  /\ challenge = NoChallenge
  /\ admins = DefaultRoster
  /\ \E t1 \in TgIds : \E t2 \in TgIds \ {t1} :
       keys = [DefaultKeys EXCEPT !["u1"].tg_id = t1, !["u2"].tg_id = t2]

NextTarget ==
  \/ \E c \in TgContacts : CmdStart(c, "button", "3")
  \/ \E w \in WebContacts : WebStartChat(w)
  \/ /\ added_rows(messages) < MaxGated
     /\ \E target_id \in TargetIds, ok \in BOOLEAN : CmdReply(101, target_id, ok)
  \/ /\ added_rows(messages) < MaxGated
     /\ \E user_id \in TargetIds, ok \in BOOLEAN : ApiSendMessage(101, user_id, ok)

SpecTarget == InitTarget /\ [][NextTarget]_vars

\* Trust and block: one contact, challenged or not, trusted, untrusted,
\* blocked with or without a reason and unblocked, the clock standing still
NextTrust ==
  \/ \E v_type \in {"math", "button"}, answer \in MathAnswers :
       CmdStart("u1", v_type, answer)
  \/ \E text \in {<<"h", "i">>}, v_type \in {"math", "button"}, answer \in MathAnswers,
        res \in InOrder(messages) :
       /\ Len(messages) < MaxGated
       /\ UserMessage("u1", text, QuietOff, v_type, answer, res)
  \/ \E answer \in Submitted : VerificationCallback("u1", answer)
  \/ \E flag \in BOOLEAN : AdminSetWhitelist("u1", flag)
  \/ \E flag \in BOOLEAN, reason \in Reasons \cup {NoReason} :
       AdminSetBlacklist("u1", flag, reason)

SpecTrust == Init /\ [][NextTrust]_vars

\* A reply beside a message task: the operators answer copies while the
\* task that delivered them is still in its loop, or after it stored the row
NextRace ==
  \/ CmdStart("u1", "button", "3")
  \/ AdminSetWhitelist("u1", TRUE)
  \/ RelayAccept(1, "u1", <<"h", "i">>, QuietOff)
  \/ RelayForward(1)
  \/ \E got \in CopyIds \cup {Fail} : RelayForwarded(1, got)
  \/ RelayStore(1, "none")
  \/ \E op \in Admins, copy \in CopyIds, forward_from \in TgContacts \cup {NoContact}, ok \in BOOLEAN :
       AdminReply(op, copy, forward_from, ok)

SpecRace == Init /\ [][NextRace]_vars

\* The roster: operators are added, switched and removed between the
\* messages of a trusted contact
NextRoster ==
  \/ CmdStart("u1", "button", "3")
  \/ AdminSetWhitelist("u1", TRUE)
  \/ \E tg_id \in Admins : ApiCreateAdmin(tg_id)
  \/ \E admin_id \in 1..Len(AdminOrder), receive_messages \in OptionalBool, is_active \in OptionalBool :
       ApiUpdateAdmin(admin_id, receive_messages, is_active)
  \/ \E admin_id \in 1..Len(AdminOrder) : ApiDeleteAdmin(admin_id)
  \/ /\ added_rows(messages) < MaxGated
     /\ \E qs \in {QuietOff, QuietNight}, res \in Deliveries(messages) :
          /\ \A a \in Admins : res[a] \in {Fail, 1 + Cardinality(chat_ids(messages, a))}
          /\ UserMessage("u1", <<"h", "i">>, qs, "button", "3", res)

SpecRoster == Init /\ [][NextRoster]_vars

\* The scan window.  The table starts with a message of u1 that was relayed,
\* to every operator or to the first only, and under it one inbound message
\* less than the scan takes, each held in quiet hours; u2 sends more, and
\* operators reply
Trusted == set_whitelist(DefaultUser, TRUE)

WindowFirst ==
  { create_message("u1", "in", ids, FALSE, NoAdmin, ids, Standing(Trusted, 0)) :
      ids \in { [a \in Admins |-> 1], [a \in {AdminOrder[1]} |-> 1] } }

WindowHeld ==
  [create_message("u2", "in", NoDict, FALSE, NoAdmin, NoDict, Standing(Trusted, 0))
     EXCEPT !.accepted = Backlogged]

InitWindow ==
  /\ users = [c \in Contacts |-> IF c \in TgContacts THEN Trusted ELSE DefaultUser]
  /\ registered = TgContacts
  /\ \E first \in WindowFirst :
       messages = <<[first EXCEPT !.accepted = Backlogged]>>
                    \o [i \in 1..(ScanLimit - 1) |-> WindowHeld]
  /\ now = 0
  /\ last = NoEvent
  /\ pc = [k \in Tasks |-> "idle"]
  /\ snap = [k \in Tasks |-> NoSnap]
  /\ succeeded = {}
  /\ sensitive_words = SensitiveWords
  /\ relay = [k \in Tasks |-> NoRelay]
  /\ orphans = {}
  /\ challenge = NoChallenge
  /\ admins = DefaultRoster
  /\ keys = DefaultKeys

NextWindow ==
  \/ /\ added_rows(messages) < MaxGated
     /\ \E qs \in {QuietOff, QuietNight}, res \in Deliveries(messages) :
          UserMessage("u2", <<"h", "i">>, qs, "button", "3", res)
  \/ \E op \in Admins, copy \in CopyIds, ok \in BOOLEAN :
       AdminReply(op, copy, NoContact, ok)

SpecWindow == InitWindow /\ [][NextWindow]_vars

\* The quiet-hours policy: the clock stands at the start of any hour of the
\* day, an operator saves any toggle and any two hours, and the policy is
\* asked once
InitQuiet ==
  /\ users = [c \in Contacts |-> DefaultUser]
  /\ registered = {}
  /\ messages = <<>>
  /\ now \in HourInstants
  /\ last = NoEvent
  /\ pc = [k \in Tasks |-> "idle"]
  /\ snap = [k \in Tasks |-> NoSnap]
  /\ succeeded = {}
  /\ sensitive_words = SensitiveWords
  /\ relay = [k \in Tasks |-> NoRelay]
  /\ orphans = {}
  /\ challenge = NoChallenge
  /\ admins = DefaultRoster
  /\ keys = DefaultKeys

NextQuiet ==
  \E enabled \in {"true", "false"}, start \in Hours, end \in Hours :
    /\ last.kind = "none"
    /\ IsQuietHours(enabled, start, end)

SpecQuiet == InitQuiet /\ [][NextQuiet]_vars

-----------------------------------------------------------------------------
(* The states of a contact, in the order the specification gives them *)

Pending(user, t) ==
  /\ user.verification_code # NoCode
  /\ user.verification_expires # NoTime
  /\ t <= user.verification_expires

Precedence(user, t) ==
  LET s == Standing(user, t)
  IN  IF s.blocked THEN "blocked"
      ELSE IF s.restricted THEN "restricted"
      ELSE IF s.trusted THEN "relay"
      ELSE IF s.verified THEN "relay"
      ELSE IF Pending(user, t) THEN "pending"
      ELSE "challenge"

RelayOutcomes == {"relay_command", "relay_blocked", "relay_held", "relay_delivered"}
OutcomeClass(outcome) == IF outcome \in RelayOutcomes THEN "relay" ELSE outcome

Admitted(s) == ~s.blocked /\ ~s.restricted /\ (s.verified \/ s.trusted)

-----------------------------------------------------------------------------
(* The content gate in the words of the specification *)

\* letters that differ in case only
CasePairs == { <<"F", "f">>, <<"O", "o">> }
SameLetter(a, b) == a = b \/ <<a, b>> \in CasePairs \/ <<b, a>> \in CasePairs

\* term occurs in text as a substring, case ignored
Occurs(term, text) ==
  \E off \in 0..(Len(text) - Len(term)) :
    \A k \in 1..Len(term) : SameLetter(term[k], text[off + k])

Matching(text, table) == {i \in DOMAIN table : Occurs(table[i].word, text)}

Verdict(text, table) ==
  IF \E i \in Matching(text, table) : table[i].action = "block" THEN "block"
  ELSE IF Matching(text, table) # {} THEN "warn"
  ELSE NoAction

\* the term lists that hold the rows of `table` in some order
Reorderings(table) ==
  {p \in [DOMAIN table -> {table[i] : i \in DOMAIN table}] :
     \A i \in DOMAIN table : \E j \in DOMAIN table : p[j] = table[i]}

-----------------------------------------------------------------------------
(* Claims *)

\* C1: an inbound message is recorded, and a copy of it delivered to an
\* operator, only if its sender, when the message was handled, was not
\* blocked, not temp-restricted, and verified or trusted.
C1_OnlyAdmittedSendersRelayed ==
  /\ \A i \in DOMAIN messages :
       messages[i].direction = "in" => Admitted(messages[i].gate)
  /\ (last.kind \in {"msg", "web"} /\ last.outcome \in {"relay_held", "relay_delivered"})
       => Admitted(Standing(last.pre, last.at))

\* a message of a contact that passed a challenge (never trusted) reached an operator
C1_Witness ==
  \E i \in DOMAIN messages :
    /\ messages[i].user = "u1"
    /\ messages[i].direction = "in"
    /\ DOMAIN messages[i].sent # {}
    /\ ~messages[i].gate.trusted

\* C2: when resolving (copy id, replying operator) returns a message, the
\* fan-out of that message delivered exactly that copy id to exactly that
\* operator.
C2_NeverMisattributes ==
  (last.kind = "reply" /\ last.hit > 0) =>
     /\ last.op \in DOMAIN messages[last.hit].sent
     /\ messages[last.hit].sent[last.op] = last.copy

\* C3: an operator's reply to the copy recorded for it in a message that was
\* relayed to every operator goes to the sender of that message; a reply to
\* a copy id that no operator was ever given is unresolved.
C3_RoundTrip ==
  last.kind = "reply" =>
    /\ \A i \in DOMAIN messages :
         ( /\ messages[i].direction = "in"
           /\ DOMAIN messages[i].forwarded_message_ids = Admins
           /\ messages[i].forwarded_message_ids[last.op] = last.copy )
         => ( /\ last.hit > 0
              /\ last.who = messages[i].user )
    /\ (\A i \in DOMAIN messages : \A a \in DOMAIN messages[i].sent :
           messages[i].sent[a] # last.copy)
         => last.hit = NotFound

\* C4: the branch an inbound message takes is the first state that matches
\* in the order Blocked, TempRestricted, Trusted, Verified, ChallengePending
\* (not expired), new challenge; only the new-challenge branch writes the
\* contact's row, and only the relay branch records a message.
C4_PrecedenceOrder ==
  last.kind = "msg" =>
    /\ OutcomeClass(last.outcome) = Precedence(last.pre, last.at)
    /\ IF last.outcome = "challenge"
       THEN /\ users[last.who].verification_code \in Codes
            /\ users[last.who].verification_expires = last.at + VERIFICATION_TIMEOUT
       ELSE users[last.who] = last.pre
    /\ last.hit > 0 => OutcomeClass(last.outcome) = "relay"

\* a message of a contact that is blocked and temp-restricted at once
C4_Witness ==
  /\ last.kind = "msg"
  /\ last.pre.is_blacklisted
  /\ Standing(last.pre, last.at).restricted
  /\ last.outcome = "blocked"

\* C5: a contact that is blocked and trusted gets the blocked notice on every
\* inbound event, ordinary message and /start alike.
C5_BlockedDominatesTrust ==
  ( /\ last.kind \in {"msg", "start"}
    /\ last.pre.is_blacklisted
    /\ last.pre.is_whitelisted )
  => last.outcome = "blocked"

\* C6: a correct answer to a challenge that has not expired is a Success and
\* leaves is_verified set, the challenge fields cleared and the fail count 0.
C6_CorrectAnswerVerifies ==
  ( /\ last.kind = "verify"
    /\ last.pre.verification_expires # NoTime
    /\ last.at <= last.pre.verification_expires
    /\ last.answer = last.pre.verification_code )
  => ( /\ last.outcome = "success"
       /\ users[last.who].is_verified
       /\ users[last.who].verification_code = NoCode
       /\ users[last.who].verification_expires = NoTime
       /\ users[last.who].verification_fails = 0 )

\* a correct answer after two wrong ones
C6_Witness ==
  /\ last.kind = "verify"
  /\ last.outcome = "success"
  /\ last.pre.verification_fails = 2

\* C7: a wrong answer that brings the fail count to max_fails sets
\* temp_restricted_until to now + ban_duration, strictly in the future, and
\* clears challenge_code.
C7_BanClearsChallenge ==
  ( /\ last.kind = "verify"
    /\ last.pre.verification_expires # NoTime
    /\ last.at <= last.pre.verification_expires
    /\ last.answer # last.pre.verification_code
    /\ last.pre.verification_fails + 1 >= MAX_VERIFICATION_FAILS )
  => ( /\ users[last.who].temp_banned_until = last.at + TEMP_BAN_DURATION
       /\ users[last.who].temp_banned_until > last.at
       /\ users[last.who].verification_code = NoCode )

\* C8: a challenge submission by a contact that is temp-restricted is not
\* evaluated: is_verified, the fail count and temp_restricted_until stay.
C8_RestrictedAnswerRejected ==
  ( /\ last.kind = "verify"
    /\ Standing(last.pre, last.at).restricted )
  => ( /\ users[last.who].is_verified = last.pre.is_verified
       /\ users[last.who].verification_fails = last.pre.verification_fails
       /\ users[last.who].temp_banned_until = last.pre.temp_banned_until )

\* C9: an inbound event (ordinary message or /start) of a contact whose
\* challenge is pending and not expired leaves challenge_code and
\* challenge_expires_at unchanged.
C9_PendingChallengeKept ==
  ( /\ last.kind \in {"msg", "start"}
    /\ Precedence(last.pre, last.at) = "pending" )
  => ( /\ users[last.who].verification_code = last.pre.verification_code
       /\ users[last.who].verification_expires = last.pre.verification_expires )

\* C10: every wrong answer raises the stored fail count by exactly one, and
\* the attempt that brings it to max_fails is the one that bans.
C10_AttemptsLinearized ==
  ( /\ last.kind = "verify"
    /\ last.outcome \in {"wrong", "banned"} )
  => ( /\ users[last.who].verification_fails = last.stored.verification_fails + 1
       /\ (last.outcome = "banned")
            <=> (last.stored.verification_fails + 1 >= MAX_VERIFICATION_FAILS) )

\* C11: an answer submitted after the challenge expired, or with no challenge
\* stored, is reported Expired even when it equals the stored code, and the
\* contact's row keeps every value.
C11_ExpiredFailsClosed ==
  ( /\ last.kind = "verify"
    /\ \/ last.pre.verification_expires = NoTime
       \/ last.at > last.pre.verification_expires )
  => ( /\ last.outcome = "expired"
       /\ users[last.who] = last.pre )

\* the right answer, given after the challenge expired
C11_Witness ==
  /\ last.kind = "verify"
  /\ last.pre.verification_code # NoCode
  /\ last.at > last.pre.verification_expires
  /\ last.answer = last.pre.verification_code
  /\ last.outcome = "expired"

\* C12: a wrong answer to a pending challenge that leaves the fail count
\* below max_fails raises the count by exactly one, reports max_fails minus
\* the new count as remaining attempts (between 1 and max_fails - 1), and
\* leaves the code, the expiry and is_verified = false as they were.
C12_WrongAnswerCounts ==
  ( /\ last.kind = "verify"
    /\ ~last.pre.is_verified
    /\ last.pre.verification_expires # NoTime
    /\ last.at <= last.pre.verification_expires
    /\ last.answer # last.pre.verification_code
    /\ last.pre.verification_fails + 1 < MAX_VERIFICATION_FAILS )
  => ( /\ last.outcome = "wrong"
       /\ users[last.who].verification_fails = last.pre.verification_fails + 1
       /\ last.remaining = MAX_VERIFICATION_FAILS - users[last.who].verification_fails
       /\ last.remaining \in 1..(MAX_VERIFICATION_FAILS - 1)
       /\ users[last.who].verification_code = last.pre.verification_code
       /\ users[last.who].verification_expires = last.pre.verification_expires
       /\ Pending(users[last.who], last.at)
       /\ ~users[last.who].is_verified )

\* the second wrong answer: one attempt remains
C12_Witness ==
  /\ last.kind = "verify"
  /\ last.outcome = "wrong"
  /\ last.pre.verification_fails = 1
  /\ last.remaining = 1

\* C13: once an answer of a contact has been accepted, any further answer of
\* that contact, right or wrong, changes nothing: is_verified stays true,
\* the fail count stays 0 and temp_restricted_until keeps its value.
C13_AnswersAfterSuccessAreNoOps ==
  ( /\ last.kind = "verify"
    /\ last.passed )
  => ( /\ users[last.who].is_verified
       /\ users[last.who].verification_fails = 0
       /\ users[last.who].temp_banned_until = last.pre.temp_banned_until
       /\ users[last.who] = last.pre )

\* a wrong answer of a contact that passed its challenge before
C13_Witness ==
  /\ last.kind = "verify"
  /\ last.passed
  /\ last.answer \notin Codes

\* C14: when the copies of a chat-platform message are fanned out, every
\* operator is tried whichever attempts fail, the recorded delivered_copies
\* hold exactly the operators whose attempt succeeded, each with the id the
\* channel returned, and the message is persisted.
C14_PartialFanOutIsolated ==
  ( /\ last.kind = "msg"
    /\ last.outcome = "relay_delivered" )
  => ( /\ last.hit \in DOMAIN messages
       /\ messages[last.hit].user = last.who
       /\ messages[last.hit].direction = "in"
       /\ last.attempted = Admins
       /\ DOMAIN messages[last.hit].forwarded_message_ids
            = {a \in Admins : last.res[a] # Fail}
       /\ \A a \in DOMAIN messages[last.hit].forwarded_message_ids :
            messages[last.hit].forwarded_message_ids[a] = last.res[a] )

\* three operators, delivery to the second fails: two entries
C14_Witness ==
  /\ last.kind = "msg"
  /\ last.outcome = "relay_delivered"
  /\ last.res[AdminOrder[1]] # Fail
  /\ last.res[AdminOrder[2]] = Fail
  /\ last.res[AdminOrder[3]] # Fail
  /\ last.hit \in DOMAIN messages
  /\ Cardinality(DOMAIN messages[last.hit].forwarded_message_ids) = 2

\* C15: an inbound message handled while the quiet-hours policy reports quiet
\* is persisted with an empty delivered_copies map and no copy of it reaches
\* an operator, on the chat platform and on the web widget.
C15_QuietHoursHoldDelivery ==
  ( /\ last.kind \in {"msg", "web"}
    /\ last.outcome \in {"relay_held", "relay_delivered"}
    /\ last.quiet )
  => ( /\ last.hit \in DOMAIN messages
       /\ DOMAIN messages[last.hit].sent = {}
       /\ messages[last.hit].forwarded_message_ids = NoDict
       /\ messages[last.hit].forwarded_message_id = NoId )

\* C16: an inbound message whose text the content gate classifies as block
\* is delivered to no operator, on the chat platform and on the web widget.
C16_BlockedTextNeverDelivered ==
  ( /\ last.kind \in {"msg", "web"}
    /\ last.verdict = "block" )
  => ( last.hit \in DOMAIN messages => DOMAIN messages[last.hit].sent = {} )

\* C17: when the channel fails to deliver an operator's message to the
\* contact (a reply, /r, or the admin pages' send), the outbound message is
\* recorded all the same.
C17_OutboundRecordedOnFailure ==
  ( /\ last.kind \in {"reply", "r", "api"}
    /\ last.outcome = "send_failed" )
  => ( /\ last.recorded \in DOMAIN messages
       /\ messages[last.recorded].direction = "out"
       /\ messages[last.recorded].user = last.who
       /\ messages[last.recorded].replied_by_admin = last.op )

\* C18: an operator's reply that resolves to no original inbound message
\* gets the cannot-determine-recipient answer; nothing is sent to a contact
\* and no outbound message is recorded.
C18_UnresolvedReplyRejected ==
  ( /\ last.kind = "reply"
    /\ last.hit <= 0 )
  => ( /\ last.outcome = "unresolved"
       /\ last.recorded = NotFound )

\* C19: classify returns every term of the current list that occurs in the
\* text as a case-insensitive substring, each once, and the verdict block when
\* a matched term is tagged block, else warn when a term matched, else none;
\* an empty text gives no term and none.
C19_ClassifyCollectsAll ==
  last.kind = "classify" =>
    IF last.text = <<>>
    THEN last.triggered = <<>> /\ last.verdict = NoAction
    ELSE /\ {last.triggered[k] : k \in DOMAIN last.triggered}
              = {sensitive_words[i].word : i \in Matching(last.text, sensitive_words)}
         /\ Len(last.triggered) = Cardinality(Matching(last.text, sensitive_words))
         /\ last.verdict = Verdict(last.text, sensitive_words)

\* two terms matched, the first tagged block and the second warn
C19_Witness ==
  /\ last.kind = "classify"
  /\ Len(last.triggered) = 2
  /\ Len(sensitive_words) = 3
  /\ sensitive_words[1].action = "block"
  /\ sensitive_words[1].word = last.triggered[1]
  /\ sensitive_words[3].action = "warn"
  /\ sensitive_words[3].word = last.triggered[2]
  /\ last.verdict = "block"

\* C20: the verdict of classify is the same for every order of the rows of
\* the term list.
C20_VerdictOrderIndependent ==
  last.kind = "classify" =>
    \A p \in Reorderings(sensitive_words) :
      check_content(last.text, p).action = last.verdict

\* "foo bar" classified with foo(block) added before bar(warn)
C20_Witness ==
  /\ last.kind = "classify"
  /\ last.text = <<"f", "o", "o", " ", "b", "a", "r">>
  /\ sensitive_words = << [word |-> <<"f", "o", "o">>, action |-> "block"],
                          [word |-> <<"b", "a", "r">>, action |-> "warn"] >>
  /\ last.verdict = "block"

\* C21: the quiet-hours policy answers false when the toggle is off; with the
\* toggle on and start <= end it answers true exactly in the hours from start
\* up to but not including end; with start > end exactly in the hours from
\* start on and the hours before end.  With the window (23, 7), hours 23 and
\* 6 are quiet and hours 12 and 7 are not.
C21_QuietWindow ==
  last.kind = "quiet" =>
    LET f == last.form
        h == hour_of(last.at)
    IN  /\ f.enabled # "true" => ~last.quiet
        /\ (f.enabled = "true" /\ f.start <= f.end)
             => (last.quiet <=> (f.start <= h /\ h < f.end))
        /\ (f.enabled = "true" /\ f.start > f.end)
             => (last.quiet <=> (h >= f.start \/ h < f.end))
        /\ (f.enabled = "true" /\ f.start = 23 /\ f.end = 7)
             => /\ h \in {23, 6} => last.quiet
                /\ h \in {12, 7} => ~last.quiet

C21_Witness ==
  /\ last.kind = "quiet"
  /\ last.form = [enabled |-> "true", start |-> 23, end |-> 7]
  /\ hour_of(last.at) = 6
  /\ last.quiet

\* C22: the delivered-copies map of a message is written when the row is
\* created and no later step changes it: rows are only added, and every row
\* keeps the map it was created with, whatever reply, marking, moderation or
\* later message follows.
C22_DeliveredCopiesWrittenOnce ==
  [][ /\ Len(messages') >= Len(messages)
      /\ \A i \in DOMAIN messages :
           messages'[i].forwarded_message_ids = messages[i].forwarded_message_ids ]_vars

C22_Witness ==
  /\ Len(messages) = 2
  /\ messages[1].forwarded_message_ids # NoDict
  /\ messages[1].is_read
  /\ messages[1].is_important
  /\ messages[2].direction = "out"
  /\ messages[2].replied_by_admin # NoAdmin

\* C23: in every state of the store an outbound message has an empty
\* delivered-copies map and an inbound message has no responding operator.
C23_DirectionColumns ==
  \A i \in DOMAIN messages :
    /\ messages[i].direction = "out" => messages[i].forwarded_message_ids = NoDict
    /\ messages[i].direction = "in" => messages[i].replied_by_admin = NoAdmin

C23_Witness ==
  /\ Len(messages) = 2
  /\ messages[1].direction = "in"
  /\ messages[1].forwarded_message_ids # NoDict
  /\ messages[2].direction = "out"
  /\ messages[2].replied_by_admin # NoAdmin
  /\ last.kind = "reply"

\* C24: during a fan-out no attempt waits for another: a task never waits
\* for the end of one attempt while an operator is still untried; and the
\* row is stored only after every operator was tried and every result
\* collected.
C24_AttemptsIndependent ==
  /\ \A k \in Tasks :
       (relay[k].stage # "idle" /\ relay[k].i <= Len(AdminOrder)
          /\ Admins \ relay[k].attempted # {})
         => relay[k].stage # "forwarding"
  /\ (last.kind = "msg" /\ last.outcome = "relay_delivered")
       => last.attempted = Admins

\* C25: the rows of one contact are stored in the order in which their
\* messages were accepted, however the tasks that handle them interleave.
C25_StoredInAcceptedOrder ==
  \A i \in DOMAIN messages, j \in DOMAIN messages :
    ( /\ i < j
      /\ messages[i].direction = "in"
      /\ messages[j].direction = "in"
      /\ messages[i].user = messages[j].user )
    => messages[i].accepted < messages[j].accepted

\* C26: when the store fails while an inbound message is handled, nothing
\* partial is left: no copy was delivered to an operator without a stored
\* row that records it.
C26_StoreFailureLeavesNothing ==
  (last.kind = "msg" /\ last.outcome = "store_failed")
    => \A a \in Admins :
         last.res[a] # Fail
           => \E i \in DOMAIN messages :
                /\ a \in DOMAIN messages[i].forwarded_message_ids
                /\ messages[i].forwarded_message_ids[a] = last.res[a]

\* C27: a failure of the stats counter stops neither the verification of a
\* contact that answered correctly in time nor the storing of a relayed
\* message.
C27_StatsFailureHarmless ==
  /\ ( /\ last.kind = "verify"
       /\ handle_verification(last.pre, last.answer, last.at).outcome = "success" )
     => users[last.who].is_verified
  /\ ( /\ last.kind = "msg"
       /\ last.outcome \in {"relay_delivered", "relay_held", "stats_failed"}
       /\ last.seq > 0 )
     => \E i \in DOMAIN messages : messages[i].accepted = last.seq

\* what the question shown asks for
TrueAnswer(ch) ==
  IF ch.op = "+" THEN ch.a + ch.b
  ELSE IF ch.op = "-" THEN ch.a - ch.b
  ELSE ch.a * ch.b

Distance(x, y) == IF x >= y THEN x - y ELSE y - x

\* C28: of the four buttons of a generated arithmetic challenge exactly one
\* carries the answer of the question shown; the four options are pairwise
\* distinct and not negative, and every wrong one is within 5 of the answer.
C28_OneCorrectOption ==
  challenge.stage = "shown" =>
    LET answer == TrueAnswer(challenge) IN
    /\ Len(challenge.buttons) = 4
    /\ challenge.code = str_int(answer)
    /\ Cardinality({i \in DOMAIN challenge.buttons :
                      challenge.buttons[i] = str_int(answer)}) = 1
    /\ \A i, j \in DOMAIN challenge.buttons :
         i # j => challenge.buttons[i] # challenge.buttons[j]
    /\ \A i \in DOMAIN challenge.shown :
         /\ challenge.shown[i] >= 0
         /\ challenge.buttons[i] = str_int(challenge.shown[i])
         /\ Distance(challenge.shown[i], answer) <= 5

C28_Witness ==
  /\ challenge.stage = "shown"
  /\ challenge.op = "-"
  /\ challenge.a = challenge.b
  /\ challenge.buttons[1] = <<"0">>

\* C29: the warning about triggered words goes to an operator only once
\* that operator's copy has been delivered, never to an operator whose copy
\* failed and never in quiet hours; a warning that fails neither removes the
\* copy id already recorded nor keeps the remaining operators from being
\* tried.
C29_WarningFollowsCopy ==
  /\ \A k \in Tasks :
       /\ relay[k].stage = "warning" => AdminOrder[relay[k].i] \in DOMAIN relay[k].sent
       /\ relay[k].warned \subseteq DOMAIN relay[k].sent
       /\ relay[k].quiet => (relay[k].stage # "warning" /\ relay[k].warned = {})
       /\ ~relay[k].triggered => (relay[k].stage # "warning" /\ relay[k].warned = {})
       /\ relay[k].ids = relay[k].sent
  /\ (last.kind = "msg" /\ last.outcome \in {"relay_delivered", "relay_held"})
       => /\ last.warned \subseteq {a \in Admins : last.res[a] # Fail}
          /\ last.quiet => last.warned = {}
          /\ ~last.quiet => last.attempted = Admins
          /\ messages[last.hit].forwarded_message_ids = delivered(last.res)

C29_Witness ==
  /\ last.kind = "msg"
  /\ last.outcome = "relay_delivered"
  /\ last.verdict = "warn"
  /\ last.res[101] # Fail
  /\ last.res[102] = Fail
  /\ last.res[103] # Fail
  /\ last.warned = {103}

\* the rows whose legacy copy id is `copy`
LegacyMatches(msgs, copy) ==
  {i \in DOMAIN msgs : msgs[i].forwarded_message_id = copy}

\* the inbound rows the scan accepts for operator op and `copy`
ScanMatches(msgs, copy, op) ==
  {i \in DOMAIN msgs :
     /\ msgs[i].direction = "in"
     /\ \/ /\ op \in DOMAIN msgs[i].forwarded_message_ids
           /\ msgs[i].forwarded_message_ids[op] = copy
        \/ /\ op \notin DOMAIN msgs[i].forwarded_message_ids
           /\ \E a \in DOMAIN msgs[i].forwarded_message_ids :
                msgs[i].forwarded_message_ids[a] = copy}

\* C30: resolving a reply returns a message whose legacy copy id is the copy
\* id, whoever replies, if there is one; otherwise the most recent inbound
\* message that has the replying operator's key with that id, or lacks the
\* operator's key and has the id under any key; otherwise nothing.
C30_ResolutionOrder ==
  last.kind = "reply" =>
    LET legacy == LegacyMatches(messages, last.copy)
        scan   == ScanMatches(messages, last.copy, last.op)
    IN  IF legacy # {} THEN last.hit \in legacy
        ELSE IF scan # {} THEN last.hit \in scan /\ \A j \in scan : j <= last.hit
        ELSE last.hit = NotFound

\* the inbound rows stored after row i
Newer(msgs, i) ==
  Cardinality({j \in DOMAIN msgs : j > i /\ msgs[j].direction = "in"})

\* C31: a copy id recorded for an operator resolves to its message only
\* while fewer than 200 newer inbound messages exist; from then on a reply to
\* that copy is reported unresolved.
C31_WindowCapsResolution ==
  last.kind = "reply" =>
    \A i \in DOMAIN messages :
      ( /\ messages[i].direction = "in"
        /\ last.op \in DOMAIN messages[i].forwarded_message_ids
        /\ messages[i].forwarded_message_ids[last.op] = last.copy )
      => /\ last.hit = i => Newer(messages, i) < 200
         /\ Newer(messages, i) >= 200 => last.hit = NotFound

\* the operators that are active and receive messages, in the order of the
\* roster
Eligible(adm) ==
  LET on == {i \in DOMAIN adm : adm[i].is_active /\ adm[i].receive_messages}
      place(i) == Cardinality({j \in on : j <= i})
  IN  [k \in 1..Cardinality(on) |-> adm[CHOOSE i \in on : place(i) = k].tg_id]

Senders(op, copy) == copy_owner(messages, op, copy) \cup flight_owner(op, copy)

\* C33: a reply to a copy that has been delivered to the operator resolves
\* to the contact that sent the message, also when the reply is handled
\* before the inbound handler has stored and committed the row.
C33_DeliveredCopyResolvable ==
  (last.kind = "reply" /\ Senders(last.op, last.copy) # {})
    => last.who \in Senders(last.op, last.copy)

\* the id the last successful send of a fan-out returned, NoId when none did
LastDelivered(res) ==
  LET ok == {k \in DOMAIN AdminOrder : res[AdminOrder[k]] # Fail}
  IN  IF ok = {} THEN NoId
      ELSE res[AdminOrder[CHOOSE k \in ok : \A j \in ok : j <= k]]

\* C34: a web-widget message is stored with an empty delivered_copies map,
\* its legacy field ends up holding the copy id of the last operator whose
\* delivery succeeded, and a reply by any operator to its own copy of the
\* message resolves to the contact that sent it.
C34_WebCopiesResolve ==
  /\ (last.kind = "web" /\ last.outcome = "relay_delivered")
       => /\ messages[last.hit].forwarded_message_ids = NoDict
          /\ messages[last.hit].forwarded_message_id = LastDelivered(last.res)
  /\ last.kind = "reply"
       => \A i \in DOMAIN messages :
            ( /\ messages[i].user \in WebContacts
              /\ messages[i].direction = "in"
              /\ last.op \in DOMAIN messages[i].sent
              /\ messages[i].sent[last.op] = last.copy )
            => last.who = messages[i].user

\* C35: a challenge answer submitted by a contact that is blocked changes
\* nothing of its verification state: is_verified, the fail count and
\* temp_restricted_until stay as they were.
C35_BlockedAnswerInert ==
  ( /\ last.kind = "verify"
    /\ last.pre.is_blacklisted )
  => ( /\ users[last.who].is_verified = last.pre.is_verified
       /\ users[last.who].verification_fails = last.pre.verification_fails
       /\ users[last.who].temp_banned_until = last.pre.temp_banned_until )

\* C36: a temporary ban leaves the fail count where it is: a contact that
\* was banned and has not passed a challenge since has a count of max_fails
\* or more, and after the ban has expired its first wrong answer to a new
\* challenge bans it again.
C36_BanKeepsFailCount ==
  /\ \A c \in TgContacts :
       (users[c].temp_banned_until # NoTime /\ c \notin succeeded)
         => users[c].verification_fails >= MAX_VERIFICATION_FAILS
  /\ ( /\ last.kind = "verify"
       /\ ~last.passed
       /\ last.pre.temp_banned_until # NoTime
       /\ last.at >= last.pre.temp_banned_until
       /\ Pending(last.pre, last.at)
       /\ last.answer # last.pre.verification_code )
     => ( /\ last.outcome = "banned"
          /\ users[last.who].temp_banned_until = last.at + TEMP_BAN_DURATION )

\* the ban of the first instant has run out, a new challenge was issued and
\* its first wrong answer bans again
C36_Witness ==
  /\ last.kind = "verify"
  /\ last.outcome = "banned"
  /\ last.pre.temp_banned_until # NoTime
  /\ last.at >= last.pre.temp_banned_until
  /\ last.pre.verification_expires > last.pre.temp_banned_until
  /\ users[last.who].verification_fails = MAX_VERIFICATION_FAILS + 1

\* the ban of the row has run out at instant t
BanOver(user, t) == user.temp_banned_until # NoTime /\ t >= user.temp_banned_until

\* C37: a temporary restriction ends: once now >= temp_restricted_until a
\* message of the contact is no longer rejected as restricted; a correct
\* answer in time to the challenge issued then verifies the contact; and the
\* next message of the verified, unblocked contact that the content gate
\* lets through outside quiet hours is fanned out to every eligible operator.
C37_RestrictionEnds ==
  /\ (last.kind = "msg" /\ BanOver(last.pre, last.at))
       => last.outcome # "restricted"
  /\ ( /\ last.kind = "verify"
       /\ BanOver(last.pre, last.at)
       /\ Pending(last.pre, last.at)
       /\ last.answer = last.pre.verification_code )
     => ( /\ last.outcome = "success"
          /\ users[last.who].is_verified )
  /\ ( /\ last.kind = "msg"
       /\ BanOver(last.pre, last.at)
       /\ last.pre.is_verified
       /\ ~last.pre.is_blacklisted
       /\ ~last.quiet
       /\ last.outcome \notin {"relay_command", "relay_blocked"} )
     => ( /\ last.outcome = "relay_delivered"
          /\ last.attempted = Admins
          /\ last.hit \in DOMAIN messages
          /\ messages[last.hit].user = last.who )

\* a contact banned at the first instant passed the challenge issued after
\* the ban had run out, and its next message was fanned out
C37_Witness ==
  /\ last.kind = "msg"
  /\ last.outcome = "relay_delivered"
  /\ last.passed
  /\ ~last.pre.is_whitelisted
  /\ BanOver(last.pre, last.at)
  /\ last.attempted = Admins

\* the row agrees with `before` in every column but the two of the block
SameButBlock(row, before) ==
  row = [before EXCEPT !.is_blacklisted = row.is_blacklisted,
                       !.blacklist_reason = row.blacklist_reason]

\* C38: trust sets is_trusted and is_verified and nothing else, untrust
\* clears is_trusted and nothing else, so a contact that was trusted stays
\* verified after untrust; is_verified is never taken back and a verified
\* contact is never challenged; block and unblock change only is_blocked
\* and block_reason.
C38_TrustIsOneWay ==
  /\ [] ( /\ (last.kind = "admin" /\ last.outcome = "trust")
             => users[last.who] = [last.pre EXCEPT !.is_whitelisted = TRUE,
                                                   !.is_verified = TRUE]
          /\ (last.kind = "admin" /\ last.outcome = "untrust")
             => users[last.who] = [last.pre EXCEPT !.is_whitelisted = FALSE]
          /\ (last.kind = "admin" /\ last.outcome \in {"block", "unblock"})
             => /\ SameButBlock(users[last.who], last.pre)
                /\ users[last.who].is_blacklisted = (last.outcome = "block")
          /\ (last.kind \in {"msg", "start"} /\ last.pre.is_verified)
             => last.outcome # "challenge" )
  /\ [][ \A c \in TgContacts : users[c].is_verified => users'[c].is_verified ]_vars

\* a contact that never passed a challenge was trusted and untrusted, and
\* its message is relayed without a challenge
C38_Witness ==
  /\ last.kind = "msg"
  /\ last.outcome = "relay_delivered"
  /\ ~last.passed
  /\ last.pre.is_verified
  /\ ~last.pre.is_whitelisted

\* C39: the operator command /r and the admin web send endpoint pick the
\* same recipient: whatever the store holds, the number either path was
\* given resolves on the other path to the same contact, or to none on both.
C39_SameRecipient ==
  /\ last.kind = "r"
       => last.who = api_send_target(keys, registered, last.target)
  /\ last.kind = "api"
       => last.who = cmd_reply_target(keys, registered, last.target)

=============================================================================
